---- MODULE Spec2Model ----
(***************************************************************************)
(* Model of the gantry workflow run orchestration engine:                  *)
(*   backend/internal/server/server.go   (Server: trigger, runJobs, delete)*)
(*   backend/internal/models/run.go      (WorkflowRun and its accessors)   *)
(*   backend/internal/storage/memory.go  (MemoryStorage)                   *)
(*   backend/internal/parser/yaml.go     (Parse, Validate)                 *)
(*   backend/internal/storage/mongodb.go (MongoStorage: the run documents, *)
(*                                        and the errors of its calls)     *)
(*   unnamed/part_001                    (HTTP handlers: the callers)      *)
(*   backend/internal/executor/docker.go (DockerExecutor.Execute)          *)
(* A run object lives on the heap (variable heap, one cell per             *)
(* TriggerWorkflow call); the in-memory store keeps POINTERS to run        *)
(* objects (workflowRuns maps a run id to a heap cell).                    *)
(***************************************************************************)
EXTENDS Integers, Sequences, FiniteSets, TLC

\* ------------------------------------------------------------------ bounds
MaxTriggers == 2      \* TriggerWorkflow calls (heap cells for run objects)
MaxClock    == 1      \* last second the wall clock reaches
MaxUploads  == 1      \* ParseAndSaveWorkflow calls
MaxDeletes  == 1      \* Server.DeleteWorkflow calls
MaxFaults   == 3      \* calls that fail: the database, the container daemon
MaxReads    == 1      \* results handed to an external caller

Calls == 1..MaxTriggers
NoTime == -1          \* a nil *time.Time / the zero time.Time

\* --------------------------------------------------- workflow documents
Step(n, r) == [name |-> n, run |-> r]
Decl(k, st) == [key |-> k, steps |-> st]
OkStep == <<Step("s", "echo")>>

\* YAML documents a client uploads: malformed text, a document without a
\* name, one with a job without steps, and three well-formed documents
\* (two of them named "X").
DocABC == [malformed |-> FALSE, name |-> "X",
           decl |-> <<Decl("A", OkStep), Decl("B", OkStep), Decl("C", OkStep)>>]
DocBA  == [malformed |-> FALSE, name |-> "X",
           decl |-> <<Decl("B", OkStep), Decl("A", OkStep)>>]
DocY   == [malformed |-> FALSE, name |-> "Y", decl |-> <<Decl("A", OkStep)>>]
DocNoName == [malformed |-> FALSE, name |-> "", decl |-> <<Decl("A", OkStep)>>]
DocNoStep == [malformed |-> FALSE, name |-> "Y", decl |-> <<Decl("A", <<>>)>>]
DocBad == [malformed |-> TRUE, name |-> "", decl |-> <<>>]
Docs == {DocBA, DocY, DocNoName, DocNoStep, DocBad}
Names == {"X", "Y"}             \* names a caller passes to trigger / delete
RunDocs == {DocABC, DocY, DocNoName, DocBad}
\* A second document named "X": other jobs, another order, other commands.
DocX2 == [malformed |-> FALSE, name |-> "X",
          decl |-> <<Decl("C", <<Step("t", "ls")>>), Decl("A", <<Step("t", "ls")>>)>>]
EditDocs == {DocABC, DocX2}

\* The documents given to the parser on its own: every name, and every
\* declaration of up to MaxJobs jobs with distinct keys (the empty key is a
\* legal YAML key) whose step list is empty, sound, or has a step without a
\* name or without a command.
MaxJobs == 2
StepLists == {<<>>, OkStep, <<Step("", "echo")>>, <<Step("s", "")>>,
              <<Step("s", "echo"), Step("", "")>>}
JobKeys == {"A", "B", ""}
Decls == {d \in UNION {[1..n -> [key : JobKeys, steps : StepLists]] : n \in 0..MaxJobs} :
             \A i, j \in DOMAIN d : d[i].key = d[j].key => i = j}
ParseDocs == {[malformed |-> FALSE, name |-> n, decl |-> d] : n \in {"", "X"}, d \in Decls}
               \cup {DocBad}

\* ------------------------------------------------------------ the models
\* models.Job as yaml decodes it: the execution-time fields are zero.
NewJob(st) == [steps |-> st, status |-> "", output |-> "",
               startedAt |-> NoTime, endedAt |-> NoTime]
ZeroJob == NewJob(<<>>)

Keys(doc) == {doc.decl[i].key : i \in 1..Len(doc.decl)}
StepsOf(doc, k) ==
  LET i == CHOOSE i \in 1..Len(doc.decl) : doc.decl[i].key = k
  IN doc.decl[i].steps

RECURSIVE NonEmptyKeys(_)
NonEmptyKeys(decl) ==
  IF decl = <<>> THEN <<>>
  ELSE IF Head(decl).key # "" THEN <<Head(decl).key>> \o NonEmptyKeys(Tail(decl))
       ELSE NonEmptyKeys(Tail(decl))

\* All orders in which a Go map with key set S can be iterated.
Perms(S) == {p \in [1..Cardinality(S) -> S] : \A a, b \in DOMAIN p : p[a] = p[b] => a = b}

\* Parser.Parse: the set of results (a singleton unless the fallback picks
\* a map iteration order).  A malformed document yields the error result.
ParseError == [err |-> TRUE]
Parse(doc) ==
  IF doc.malformed THEN {ParseError}
  ELSE LET jobs  == [k \in Keys(doc) |-> NewJob(StepsOf(doc, k))]
           order == NonEmptyKeys(doc.decl)
       IN IF Len(order) # 0
          THEN {[err |-> FALSE, name |-> doc.name, jobs |-> jobs, jobOrder |-> order]}
          ELSE {[err |-> FALSE, name |-> doc.name, jobs |-> jobs, jobOrder |-> p] :
                   p \in Perms(Keys(doc))}

\* Parser.Validate: the set of results the map iteration can produce.
JobViolations(k, job) ==
  IF Len(job.steps) = 0 THEN {<<"job must have at least one step", k>>}
  ELSE LET bad == {i \in 1..Len(job.steps) :
                      job.steps[i].name = "" \/ job.steps[i].run = ""}
       IN IF bad = {} THEN {}
          ELSE LET i == CHOOSE i \in bad : \A j \in bad : i <= j
               IN IF job.steps[i].name = ""
                  THEN {<<"step is missing a name", k, i>>}
                  ELSE {<<"step is missing run commands", k, job.steps[i].name>>}

\* Variant of Validate: only the name is checked.
Validate_NameOnly(wf) ==
  IF wf.name = "" THEN {<<"workflow name is required">>} ELSE {<<"ok">>}
\* Variant of Validate: every workflow passes.
Validate_Lenient(wf) == {<<"ok">>}
Validate(wf) ==
  IF wf.name = "" THEN {<<"workflow name is required">>}
  ELSE IF DOMAIN wf.jobs = {} THEN {<<"workflow must have at least one job">>}
  ELSE LET errs == UNION {JobViolations(k, wf.jobs[k]) : k \in DOMAIN wf.jobs}
       IN IF errs = {} THEN {<<"ok">>} ELSE errs

\* map[k] = v and delete(m, k) on a Go map held as a function
EmptyMap == [x \in {} |-> x]
Put(m, k, v) == [x \in DOMAIN m \cup {k} |-> IF x = k THEN v ELSE m[x]]
Remove(m, S) == [x \in DOMAIN m \ S |-> m[x]]

\* ------------------------------------------------------------- the state
VARIABLES
  now,           \* time.Now(), in whole seconds
  workflows,     \* MemoryStorage.workflows    : name -> workflow
  workflowRuns,  \* MemoryStorage.workflowRuns : run id -> heap cell
  docs,          \* MongoStorage.workflowRuns  : run id -> stored document,
                 \* as <<table>>, or <<>> when no document store is connected
  heap,          \* the WorkflowRun objects    : heap cell -> run
  task,          \* per TriggerWorkflow call: program counter and locals
  del,           \* the Server.DeleteWorkflow call in progress (removed: the
                 \* runs its cascade has removed when no workflow of the
                 \* name was stored)
  triggers,      \* TriggerWorkflow calls still to come
  uploads,       \* ParseAndSaveWorkflow calls still to come
  deletes,       \* Server.DeleteWorkflow calls still to come
  faults,        \* calls of the store or the backend that may still fail
  rd,            \* the external caller: the call in progress and its result
  reads,         \* results still to be handed out
  hist,          \* history: heap cell -> the states its run object has had
  upErr,         \* the error the last ParseAndSaveWorkflow call returned
  upDoc,         \* <<the document given to that call>>
  upWf,          \* <<the workflow Parse made of it>>, <<>> after a parse error
  ctxDone,       \* per TriggerWorkflow call: the caller's context is cancelled
  dk,            \* DockerExecutor: the Execute call in progress, the containers
  mc             \* MemoryStorage.mu and the store calls of concurrent callers

vars == <<now, workflows, workflowRuns, docs, heap, task, del, triggers, uploads, deletes,
          faults, rd, reads, hist, upErr,
               upDoc, upWf, ctxDone, dk, mc>>

\* The locals of a call before it starts (wf is not read before
\* TriggerWorkflow sets it).  execLog and failedAt are history: the jobs
\* passed to Execute, and the position of the job whose Execute failed.
IdleTask == [pc |-> "idle", wf |-> ParseError, jobOrder |-> <<>>, idx |-> 0,
             job |-> ZeroJob, err |-> FALSE, allSuccess |-> TRUE,
             runID |-> NoTime, execLog |-> <<>>, failedAt |-> 0, resp |-> FALSE,
             name |-> "", out |-> ""]

\* Concurrent callers of the store (as the goroutines of
\* TestMemoryStorage_Concurrency), before their calls: the mutex is free
\* (w: the holder of the write lock, r: the holders of the read lock).
\* snap is what a call has read of the two tables, res what it returns,
\* before the calls that had returned when it was made.
MaxCallers == 3
StoreCallers == 1..MaxCallers
IdleCall == [pc |-> "idle", op |-> "", snap |-> <<>>, res |-> <<>>, before |-> {}]
IdleStore == [w |-> 0, r |-> {}, call |-> [c \in StoreCallers |-> IdleCall]]

\* DockerExecutor before its first Execute call: no container exists.
\* job and image are the inputs of the call, id its container (0: none),
\* exit the step whose command failed (0: none), out and err what the call
\* returns, live the containers that exist, calls the calls made so far,
\* ran the commands that have been run (in which container, by which call,
\* which step of its job).
IdleDocker == [pc |-> "idle", steps |-> <<>>, image |-> "", id |-> 0, exit |-> 0,
               out |-> <<>>, err |-> "", live |-> {}, calls |-> 0, ran |-> {}]

\* The external caller before its first call.  todo are the run objects a
\* call has still to copy, cell the one being copied and part what has been
\* copied of it, snaps the result (heap cell -> copy), shared the parts of
\* a result that are the memory of the run object itself, and edited
\* whether the caller has written to its result.
NoRun == [id |-> NoTime, workflowName |-> "", status |-> "", jobs |-> EmptyMap,
          jobOrder |-> <<>>, startedAt |-> NoTime, completedAt |-> NoTime]
IdleReader == [pc |-> "idle", kind |-> "", todo |-> {}, cell |-> 0, part |-> NoRun,
               snaps |-> EmptyMap, shared |-> {}, edited |-> FALSE]

\* NewServer / NewMemoryStorage: empty tables, nothing running.  The
\* arguments are the numbers of client calls of the scenario, and the
\* document store of the scenario (NewServer connects one when the
\* configuration asks for it, lines 40-46).
NotConnected == <<>>
NewMongoStorage == <<EmptyMap>>
InitOf(nTriggers, nUploads, nDeletes, nFaults, nReads, mongo) ==
  /\ now = 0
  /\ workflows = EmptyMap
  /\ workflowRuns = EmptyMap
  /\ docs = mongo
  /\ heap = EmptyMap
  /\ task = [t \in Calls |-> IdleTask]
  /\ del = [pc |-> "idle", name |-> "", removed |-> {}]
  /\ triggers = nTriggers
  /\ uploads = nUploads
  /\ deletes = nDeletes
  /\ faults = nFaults
  /\ rd = IdleReader
  /\ reads = nReads
  /\ hist = EmptyMap
  /\ upErr = <<>>
  /\ upDoc = <<>>
  /\ upWf = <<>>
  /\ ctxDone = [t \in Calls |-> FALSE]
  /\ dk = IdleDocker
  /\ mc = IdleStore
InitWith(nTriggers, nUploads, nDeletes, nFaults, nReads) ==
  InitOf(nTriggers, nUploads, nDeletes, nFaults, nReads, NotConnected)

Init == InitWith(MaxTriggers, MaxUploads, MaxDeletes, 0, 0)



\* ------------------------------------------------------ models.WorkflowRun
\* run.go: the accessors take the run's own lock, so each is one atomic step.
\* Variants of the accessors: a status setter that also stamps the
\* completion time, and a Complete that stamps the zero Unix time.
SetStatus_Stamped(r, status) == [r EXCEPT !.status = status, !.completedAt = 0]
Complete_Epoch(r, t0) == [r EXCEPT !.completedAt = 0]
UpdateJob(r, name, job) == [r EXCEPT !.jobs = Put(r.jobs, name, job)]
SetStatus(r, status) == [r EXCEPT !.status = status]
Complete(r, t0) == [r EXCEPT !.completedAt = t0]
Clone(r) == [id |-> r.id, workflowName |-> r.workflowName, status |-> r.status,
             jobs |-> [k \in DOMAIN r.jobs |-> r.jobs[k]],
             jobOrder |-> [i \in 1..Len(r.jobOrder) |-> r.jobOrder[i]],
             startedAt |-> r.startedAt, completedAt |-> r.completedAt]

\* The locks a task holds between two of its steps.  Every accessor of
\* the run (run.go 21-41) and every operation of the store takes its lock
\* and releases it before it returns (defer Unlock), so runJobs holds none
\* when it calls Execute.
\* Variant of LocksHeld: Execute is called with both locks held.
LocksHeld_InExecute(t) == IF task[t].pc = "inExecute" THEN {"store", "run"} ELSE {}
\* Variant of LocksHeld: the lock of the run taken by UpdateJob, SetStatus
\* or Complete is kept until the UpdateRun that follows has returned.
LocksHeld_UntilPersisted(t) ==
  IF task[t].pc \in {"persistRunning", "persistResult", "persistStatus", "persistFinal"}
  THEN {"run"} ELSE {}
LocksHeld(t) == {}
StoreLocked == \E t \in Calls : "store" \in LocksHeld(t)
RunLocked(c) == c \in Calls /\ "run" \in LocksHeld(c)

\* run.go 53-54: Clone holds the read lock of the run from its first read
\* to its return, and UpdateJob, SetStatus and Complete wait for it.
\* Variant of RLocked: a Clone that takes no lock.
RLocked_Never(c) == FALSE
RLocked(c) == rd.pc \in {"cloneTimes", "cloneJobs"} /\ rd.cell = c
\* The states a run object has had, with the ones of the heap hp added.
Seen(h, hp) == [c \in DOMAIN hp |-> (IF c \in DOMAIN h THEN h[c] ELSE {}) \cup {hp[c]}]

\* ---------------------------------------------------------- MemoryStorage
\* memory.go 79-80 and 91-92: GetRun and ListRuns hold the read lock of the
\* store until they return; the calls that write a table wait for it.
StoreRLocked ==
  rd.kind \in {"GetRun", "ListRuns"} /\ rd.pc \in {"next", "cloneTimes", "cloneJobs"}
\* Variant of SaveWorkflow: a name already stored keeps its workflow.
SaveWorkflow_KeepFirst(wfs, wf) == IF wf.name \in DOMAIN wfs THEN wfs ELSE Put(wfs, wf.name, wf)
SaveWorkflow(wfs, wf) == Put(wfs, wf.name, wf)
SaveRun(rs, id, cell) == Put(rs, id, cell)
\* UpdateRun is an update, not an upsert: not found leaves the table alone.
UpdateRunOk(rs, id) == id \in DOMAIN rs
\* Variant of UpdateRun: an upsert.
UpdateRun_Upsert(rs, id, cell) == Put(rs, id, cell)
UpdateRun(rs, id, cell) == IF UpdateRunOk(rs, id) THEN Put(rs, id, cell) ELSE rs
\* DeleteRunsByWorkflow: the runs of the workflow leave the table.
\* Variant of DeleteRunsByWorkflow: the table is emptied.
DeleteRunsByWorkflow_All(rs, hp, name) == EmptyMap
DeleteRunsByWorkflow(rs, hp, name) ==
  Remove(rs, {id \in DOMAIN rs : hp[rs[id]].workflowName = name})
\* The server talks to the Storage interface, and a store backed by a
\* database can fail any call (mongodb.go, SaveRun 132-135 and UpdateRun
\* 205-208); a call that fails leaves the table as it was.  StoreErr is the
\* set of outcomes of one call: no error, or an error while faults remain.
StoreErr == IF faults > 0 THEN BOOLEAN ELSE {FALSE}
\* Storage.UpdateRun as runJobs sees it: the table after the call and
\* whether the call returned an error (of the database, or not found).
StorageUpdateRun(rs, id, cell, dbErr) ==
  [runs |-> IF dbErr THEN rs ELSE UpdateRun(rs, id, cell),
   err  |-> dbErr \/ ~UpdateRunOk(rs, id)]
\* MongoStorage, given the calls the server makes of its store (Stored_*:
\* the table after the call, untouched by a call that fails or when no
\* document store is connected): SaveRun
\* upserts a clone of the run under its id, UpdateRun replaces the document
\* of the id if there is one, DeleteRunsByWorkflow removes the documents
\* of the workflow, GetRun decodes the document of the id and ListRuns all
\* documents.
Mongo_SaveRun(ds, run) == Put(ds, run.id, Clone(run))
Mongo_UpdateRunOk(ds, run) == run.id \in DOMAIN ds
Mongo_UpdateRun(ds, run) == IF Mongo_UpdateRunOk(ds, run) THEN Put(ds, run.id, Clone(run)) ELSE ds
Mongo_DeleteRunsByWorkflow(ds, name) ==
  Remove(ds, {id \in DOMAIN ds : ds[id].workflowName = name})
Connected == docs # NotConnected
Mongo_Ids == IF Connected THEN DOMAIN docs[1] ELSE {}
Mongo_GetRunOk(id) == id \in Mongo_Ids
Mongo_GetRun(id) == docs[1][id]
Mongo_ListRuns == {docs[1][id] : id \in Mongo_Ids}
Stored_SaveRun(run, dbErr) ==
  IF dbErr \/ ~Connected THEN docs ELSE <<Mongo_SaveRun(docs[1], run)>>
Stored_UpdateRun(run, dbErr) ==
  IF dbErr \/ ~Connected THEN docs ELSE <<Mongo_UpdateRun(docs[1], run)>>
Stored_DeleteRunsByWorkflow(name) ==
  IF ~Connected THEN docs ELSE <<Mongo_DeleteRunsByWorkflow(docs[1], name)>>
\* GetRun: not found, or a clone of the object the table points to.
GetRunOk(id) == id \in DOMAIN workflowRuns
GetRun(id) == Clone(heap[workflowRuns[id]])
ListRuns == {Clone(heap[workflowRuns[id]]) : id \in DOMAIN workflowRuns}

\* --------------------------------------------------------------- Server
\* ParseAndSaveWorkflow: Parse, Validate, SaveWorkflow; an error of Parse
\* or Validate returns before the store is touched.
ParseAndSaveWorkflow(doc) ==
  /\ uploads > 0
  /\ ~StoreRLocked /\ ~StoreLocked
  /\ uploads' = uploads - 1
  /\ upDoc' = <<doc>>
  /\ \E wf \in Parse(doc) :
       IF wf.err THEN workflows' = workflows /\ upErr' = <<"parse">> /\ upWf' = <<>>
       ELSE /\ upWf' = <<wf>>
            /\ \E v \in Validate(wf) :
                 /\ upErr' = v
                 /\ IF v # <<"ok">> THEN workflows' = workflows
                    ELSE workflows' = SaveWorkflow(workflows,
                           [name |-> wf.name, jobs |-> wf.jobs, jobOrder |-> wf.jobOrder])
  /\ UNCHANGED <<now, workflowRuns, docs, heap, task, del, deletes, triggers, faults, rd,
                 reads, hist, ctxDone, dk, mc>>

\* MemoryStorage.GetWorkflow: the stored workflow, or the not-found error.
\* Variant of GetWorkflow: an unknown name gives a workflow without jobs.
GetWorkflow_Zero(wfs, name) ==
  [err |-> FALSE,
   wf  |-> IF name \in DOMAIN wfs THEN wfs[name]
           ELSE [name |-> name, jobs |-> EmptyMap, jobOrder |-> <<>>]]
GetWorkflow(wfs, name) ==
  IF name \in DOMAIN wfs THEN [err |-> FALSE, wf |-> wfs[name]]
  ELSE [err |-> TRUE, wf |-> ParseError]

\* TriggerWorkflow, lines 115-121: GetWorkflow; its error is returned, else
\* executeWorkflow is called.
TriggerWorkflow(t, name) ==
  /\ triggers > 0
  /\ triggers' = triggers - 1
  /\ task[t].pc = "idle"
  /\ IF t = 1 THEN TRUE ELSE task[t - 1].pc # "idle"
  /\ LET res == GetWorkflow(workflows, name)
     IN task' = IF res.err
                THEN [task EXCEPT ![t].pc = "notFound", ![t].name = name]
                ELSE [task EXCEPT ![t].pc = "runID", ![t].name = name,
                                  ![t].wf = res.wf]
  /\ UNCHANGED <<now, workflows, workflowRuns, docs, heap, del, uploads, deletes, faults,
               rd, reads, hist, upErr,
               upDoc, upWf, ctxDone, dk, mc>>

\* executeWorkflow, line 221: the run id is the current Unix second.
RunIDOf(clock) == clock
ExecuteWorkflow_RunID(t) ==
  /\ task[t].pc = "runID"
  /\ task' = [task EXCEPT ![t].pc = "saveRun", ![t].runID = RunIDOf(now)]
  /\ UNCHANGED <<now, workflows, workflowRuns, docs, heap, del, uploads, deletes, triggers,
               faults, rd, reads, hist, upErr,
               upDoc, upWf, ctxDone, dk, mc>>

\* executeWorkflow, lines 223-239: build the run, SaveRun, go runJobs.
\* Variant of NewRun: the job order of the workflow is not copied.
NewRun_NoOrder(id, wf, t0) ==
  [id |-> id, workflowName |-> wf.name, status |-> "running", jobs |-> EmptyMap,
   jobOrder |-> <<>>, startedAt |-> t0, completedAt |-> NoTime]
NewRun(id, wf, t0) ==
  [id |-> id, workflowName |-> wf.name, status |-> "running", jobs |-> EmptyMap,
   jobOrder |-> wf.jobOrder, startedAt |-> t0, completedAt |-> NoTime]
\* Variant of AfterSaveRun: the goroutine is started before the error of
\* SaveRun is looked at.
AfterSaveRun_GoFirst(err) == "start"
\* line 232-239: an error of SaveRun is returned, otherwise go runJobs.
AfterSaveRun(err) == IF err THEN "saveErr" ELSE "start"
ExecuteWorkflow_SaveRun(t) ==
  /\ task[t].pc = "saveRun"
  /\ ~StoreRLocked /\ ~StoreLocked
  /\ heap' = Put(heap, t, NewRun(task[t].runID, task[t].wf, now))
  /\ \E dbErr \in StoreErr :
       /\ workflowRuns' = IF dbErr THEN workflowRuns
                          ELSE SaveRun(workflowRuns, task[t].runID, t)
       /\ docs' = Stored_SaveRun(heap'[t], dbErr)
       /\ faults' = IF dbErr THEN faults - 1 ELSE faults
       /\ task' = [task EXCEPT ![t].pc = AfterSaveRun(dbErr)]
  /\ hist' = Seen(hist, heap')
  /\ UNCHANGED <<now, workflows, del, uploads, deletes, triggers, rd, reads, upErr,
               upDoc, upWf, ctxDone, dk, mc>>

\* runJobs, lines 257-263: allSuccess and the job order (the workflow's, or
\* an iteration order of its job map when the workflow has none).
LoopPc(order, i) == IF i <= Len(order) THEN "mark" ELSE "setStatus"
RunJobs_Start(t) ==
  /\ task[t].pc = "start"
  /\ \E order \in (IF Len(task[t].wf.jobOrder) = 0
                   THEN Perms(DOMAIN task[t].wf.jobs)
                   ELSE {task[t].wf.jobOrder}) :
       task' = [task EXCEPT ![t].pc = LoopPc(order, 1), ![t].jobOrder = order,
                            ![t].idx = 1, ![t].allSuccess = TRUE]
  /\ UNCHANGED <<now, workflows, workflowRuns, docs, heap, del, uploads, deletes, triggers,
               faults, rd, reads, hist, upErr,
               upDoc, upWf, ctxDone, dk, mc>>

\* Variant of JobOf: the job is looked up in the workflow the store holds
\* under the name now, not in the workflow the trigger has fetched.
JobOf_Live(wf, name) ==
  LET cur == IF wf.name \in DOMAIN workflows THEN workflows[wf.name]
             ELSE [name |-> wf.name, jobs |-> EmptyMap, jobOrder |-> <<>>]
  IN IF name \in DOMAIN cur.jobs THEN cur.jobs[name] ELSE ZeroJob
\* runJobs, line 266: job := wf.Jobs[jobName], of the workflow it was given
JobOf(wf, name) == IF name \in DOMAIN wf.jobs THEN wf.jobs[name] ELSE ZeroJob
JobName(t) == task[t].jobOrder[task[t].idx]

\* lines 266-272: the job is marked running in the run object.
RunJobs_MarkRunning(t) ==
  /\ task[t].pc = "mark"
  /\ ~RLocked(t)
  /\ LET job == [JobOf(task[t].wf, JobName(t)) EXCEPT
                    !.status = "running", !.startedAt = now]
     IN /\ heap' = [heap EXCEPT ![t] = UpdateJob(@, JobName(t), job)]
        /\ task' = [task EXCEPT ![t].pc = "persistRunning", ![t].job = job]
  /\ hist' = Seen(hist, heap')
  /\ UNCHANGED <<now, workflows, workflowRuns, docs, del, uploads, deletes, triggers,
               faults, rd, reads, upErr,
               upDoc, upWf, ctxDone, dk, mc>>

\* lines 274-276, 294-296, 309-311, 247-249: UpdateRun, its error only logged.
\* Variant of OnUpdateErr: an error of UpdateRun makes runJobs return (to
\* its deferred function).
OnUpdateErr_Abort(err, to) == IF err THEN "complete" ELSE to
OnUpdateErr(err, to) == to
PersistStep(t, from, to) ==
  /\ task[t].pc = from
  /\ ~StoreRLocked /\ ~StoreLocked
  /\ \E dbErr \in StoreErr :
       LET res == StorageUpdateRun(workflowRuns, heap[t].id, t, dbErr)
       IN /\ workflowRuns' = res.runs
          /\ docs' = Stored_UpdateRun(heap[t], dbErr)
          /\ faults' = IF dbErr THEN faults - 1 ELSE faults
          /\ task' = [task EXCEPT ![t].pc = OnUpdateErr(res.err, to)]
  /\ UNCHANGED <<now, workflows, heap, del, uploads, deletes, triggers, rd, reads,
               hist, upErr,
               upDoc, upWf, ctxDone, dk, mc>>

RunJobs_PersistRunning(t) == PersistStep(t, "persistRunning", "callExecute")

\* line 278: the call of executor.Execute.
RunJobs_ExecuteCall(t) ==
  /\ task[t].pc = "callExecute"
  /\ task' = [task EXCEPT ![t].pc = "inExecute",
                          ![t].execLog = Append(@, JobName(t))]
  /\ UNCHANGED <<now, workflows, workflowRuns, docs, heap, del, uploads, deletes, triggers,
               faults, rd, reads, hist, upErr,
               upDoc, upWf, ctxDone, dk, mc>>

\* lines 278-291: Execute returns (output, err); the local job is updated.
\* Variant of JobCtxCancelled: the context of the jobs is derived from the
\* context of the caller.
JobCtxCancelled_FromCaller(t) == ctxDone[t]
\* lines 251-255: jobCtx is derived from context.Background(), the context
\* of the caller is not used: its cancellation never reaches Execute.
JobCtxCancelled(t) == FALSE
\* What Execute can return: success with the output, an error with the
\* output so far (the script failed), and an error without output when a
\* request to the backend fails (a fault, as those of the store) or the
\* context given to it is cancelled.
BackendErr == [ok |-> FALSE, out |-> ""]
ExecuteResults(t) ==
  IF JobCtxCancelled(t) THEN {BackendErr}
  ELSE {[ok |-> TRUE, out |-> "out"], [ok |-> FALSE, out |-> "partial"]}
         \cup (IF faults > 0 THEN {BackendErr} ELSE {})
\* Variant of JobResult: the error of Execute is not looked at.
JobResult_IgnoreErr(job, out, ok, t0) ==
  [job EXCEPT !.output = out, !.endedAt = t0, !.status = "success"]
\* Variant of JobResult: the output of a failed Execute is dropped.
JobResult_DropOutput(job, out, ok, t0) ==
  [job EXCEPT !.output = IF ok THEN out ELSE "",
              !.endedAt = t0,
              !.status = IF ok THEN "success" ELSE "failed"]
JobResult(job, out, ok, t0) ==
  [job EXCEPT !.output = out,
              !.endedAt = t0,
              !.status = IF ok THEN "success" ELSE "failed"]
RunJobs_ExecuteReturn(t) ==
  /\ task[t].pc = "inExecute"
  /\ \E res \in ExecuteResults(t) :
       /\ task' = [task EXCEPT ![t].pc = "record",
                               ![t].out = res.out,
                               ![t].job = JobResult(@, res.out, res.ok, now),
                               ![t].err = ~res.ok,
                               ![t].allSuccess = IF res.ok THEN @ ELSE FALSE,
                               ![t].failedAt = IF res.ok THEN @ ELSE task[t].idx]
       /\ faults' = IF res = BackendErr /\ faults > 0 THEN faults - 1 ELSE faults
  /\ UNCHANGED <<now, workflows, workflowRuns, docs, heap, del, uploads, deletes, triggers,
               rd, reads, hist, upErr, upDoc, upWf, ctxDone, dk, mc>>

\* line 293: the result is recorded in the run object.
RunJobs_Record(t) ==
  /\ task[t].pc = "record"
  /\ ~RLocked(t)
  /\ heap' = [heap EXCEPT ![t] = UpdateJob(@, JobName(t), task[t].job)]
  /\ task' = [task EXCEPT ![t].pc = "persistResult"]
  /\ hist' = Seen(hist, heap')
  /\ UNCHANGED <<now, workflows, workflowRuns, docs, del, uploads, deletes, triggers,
               faults, rd, reads, upErr,
               upDoc, upWf, ctxDone, dk, mc>>

\* lines 294-301: UpdateRun, then break on error or go on with the next job.
\* Variants of AfterJob: a loop without the break, a loop that runs a
\* failed job again, and a return (to the deferred function) for the break.
AfterJob_Return(err, order, i) ==
  IF err THEN [pc |-> "complete", idx |-> i]
  ELSE [pc |-> LoopPc(order, i + 1), idx |-> i + 1]
\* Variant of AfterJob: the job after a successful one is left out.
AfterJob_Skip(err, order, i) ==
  IF err THEN [pc |-> "setStatus", idx |-> i]
  ELSE [pc |-> LoopPc(order, i + 2), idx |-> i + 2]
AfterJob_NoBreak(err, order, i) == [pc |-> LoopPc(order, i + 1), idx |-> i + 1]
AfterJob_Retry(err, order, i) ==
  IF err THEN [pc |-> "mark", idx |-> i]
  ELSE [pc |-> LoopPc(order, i + 1), idx |-> i + 1]
AfterJob(err, order, i) ==
  IF err THEN [pc |-> "setStatus", idx |-> i]
  ELSE [pc |-> LoopPc(order, i + 1), idx |-> i + 1]
RunJobs_PersistResult(t) ==
  /\ task[t].pc = "persistResult"
  /\ ~StoreRLocked /\ ~StoreLocked
  /\ \E dbErr \in StoreErr :
       LET res == StorageUpdateRun(workflowRuns, heap[t].id, t, dbErr)
           next == AfterJob(task[t].err, task[t].jobOrder, task[t].idx)
       IN /\ workflowRuns' = res.runs
          /\ docs' = Stored_UpdateRun(heap[t], dbErr)
          /\ faults' = IF dbErr THEN faults - 1 ELSE faults
          /\ task' = [task EXCEPT ![t].pc = OnUpdateErr(res.err, next.pc),
                                  ![t].idx = next.idx]
  /\ UNCHANGED <<now, workflows, heap, del, uploads, deletes, triggers, rd, reads,
               hist, upErr,
               upDoc, upWf, ctxDone, dk, mc>>

\* lines 303-307: the overall status.
\* Variant of FinalStatus: the outcome of the jobs is ignored.
FinalStatus_Always(allSuccess) == "success"
FinalStatus(allSuccess) == IF allSuccess THEN "success" ELSE "failed"
RunJobs_SetStatus(t) ==
  /\ task[t].pc = "setStatus"
  /\ ~RLocked(t)
  /\ heap' = [heap EXCEPT ![t] = SetStatus(@, FinalStatus(task[t].allSuccess))]
  /\ task' = [task EXCEPT ![t].pc = "persistStatus"]
  /\ hist' = Seen(hist, heap')
  /\ UNCHANGED <<now, workflows, workflowRuns, docs, del, uploads, deletes, triggers,
               faults, rd, reads, upErr,
               upDoc, upWf, ctxDone, dk, mc>>

RunJobs_PersistStatus(t) == PersistStep(t, "persistStatus", "complete")

\* lines 244-250, the deferred function: Complete, then UpdateRun.
RunJobs_Complete(t) ==
  /\ task[t].pc = "complete"
  /\ ~RLocked(t)
  /\ heap' = [heap EXCEPT ![t] = Complete(@, now)]
  /\ task' = [task EXCEPT ![t].pc = "persistFinal"]
  /\ hist' = Seen(hist, heap')
  /\ UNCHANGED <<now, workflows, workflowRuns, docs, del, uploads, deletes, triggers,
               faults, rd, reads, upErr,
               upDoc, upWf, ctxDone, dk, mc>>

RunJobs_PersistFinal(t) == PersistStep(t, "persistFinal", "done")

\* Server.DeleteWorkflow, lines 210-213: the cascade (its error only logged).
DeleteWorkflow_Runs(name) ==
  /\ del.pc = "idle"
  /\ ~StoreRLocked /\ ~StoreLocked
  /\ deletes > 0
  /\ deletes' = deletes - 1
  /\ workflowRuns' = DeleteRunsByWorkflow(workflowRuns, heap, name)
  /\ docs' = Stored_DeleteRunsByWorkflow(name)
  /\ del' = [pc |-> "deleteWorkflow", name |-> name,
             removed |-> IF name \in DOMAIN workflows THEN {}
                         ELSE DOMAIN workflowRuns \ DOMAIN workflowRuns']
  /\ UNCHANGED <<now, workflows, heap, task, uploads, triggers, faults, rd, reads,
               hist, upErr,
               upDoc, upWf, ctxDone, dk, mc>>

\* Server.DeleteWorkflow, line 216: storage.DeleteWorkflow (not found: error).
DeleteWorkflow(wfs, name) == IF name \in DOMAIN wfs THEN Remove(wfs, {name}) ELSE wfs
DeleteWorkflow_Workflow ==
  /\ del.pc = "deleteWorkflow"
  /\ ~StoreRLocked /\ ~StoreLocked
  /\ workflows' = DeleteWorkflow(workflows, del.name)
  /\ del' = [pc |-> IF del.name \in DOMAIN workflows THEN "idle" ELSE "idleNotFound",
             name |-> del.name, removed |-> {}]
  /\ UNCHANGED <<now, workflowRuns, docs, heap, task, uploads, deletes, triggers, faults,
               rd, reads, hist, upErr,
               upDoc, upWf, ctxDone, dk, mc>>

\* ------------------------------------------------------ external callers
\* A caller may start a call when its last one has returned.
CallerFree == rd.pc \in {"idle", "got", "notFound"} /\ reads > 0
NextPc(todo) == IF todo = {} THEN "got" ELSE "next"
\* The TriggerWorkflow call of t has returned a run (server.go 239).
Returned(t) == task[t].pc \notin {"idle", "runID", "saveRun", "notFound", "saveErr"}

\* MemoryStorage.GetRun, lines 79-85: the read lock of the store, the lookup.
GetRun_Call(id) ==
  /\ CallerFree /\ ~StoreLocked
  /\ reads' = reads - 1
  /\ rd' = IF GetRunOk(id)
           THEN [IdleReader EXCEPT !.pc = "next", !.kind = "GetRun",
                                   !.todo = {workflowRuns[id]}]
           ELSE [IdleReader EXCEPT !.pc = "notFound", !.kind = "GetRun"]
  /\ UNCHANGED <<now, workflows, workflowRuns, docs, heap, task, del, triggers, uploads,
                 deletes, faults, hist, upErr,
               upDoc, upWf, ctxDone, dk, mc>>

\* MemoryStorage.ListRuns, lines 91-95: the read lock of the store; every
\* run object of the table is cloned, in the iteration order of the map.
ListRuns_Call ==
  /\ CallerFree /\ ~StoreLocked
  /\ reads' = reads - 1
  /\ LET cells == {workflowRuns[id] : id \in DOMAIN workflowRuns}
     IN rd' = [IdleReader EXCEPT !.pc = NextPc(cells), !.kind = "ListRuns",
                                 !.todo = cells]
  /\ UNCHANGED <<now, workflows, workflowRuns, docs, heap, task, del, triggers, uploads,
                 deletes, faults, hist, upErr,
               upDoc, upWf, ctxDone, dk, mc>>

\* WorkflowRun.Clone called on the run object itself, by a caller that holds
\* the pointer TriggerWorkflow returned (as TestWorkflowRun_ThreadSafety
\* calls it next to the writers): no lock of the store is involved.
Clone_Call(t) ==
  /\ CallerFree
  /\ Returned(t)
  /\ reads' = reads - 1
  /\ rd' = [IdleReader EXCEPT !.pc = "next", !.kind = "Clone", !.todo = {t}]
  /\ UNCHANGED <<now, workflows, workflowRuns, docs, heap, task, del, triggers, uploads,
                 deletes, faults, hist, upErr,
               upDoc, upWf, ctxDone, dk, mc>>

\* Clone, lines 53-59: RLock, then the struct literal reads ID,
\* WorkflowName and Status.
Clone_Begin(c) ==
  /\ rd.pc = "next"
  /\ c \in rd.todo
  /\ ~RunLocked(c)
  /\ rd' = [rd EXCEPT !.pc = "cloneTimes", !.cell = c,
                      !.part = [NoRun EXCEPT !.id = heap[c].id,
                                             !.workflowName = heap[c].workflowName,
                                             !.status = heap[c].status]]
  /\ UNCHANGED <<now, workflows, workflowRuns, docs, heap, task, del, triggers, uploads,
                 deletes, faults, reads, hist, upErr,
               upDoc, upWf, ctxDone, dk, mc>>

\* Clone, lines 62-63: StartedAt and CompletedAt.
Clone_Times ==
  /\ rd.pc = "cloneTimes"
  /\ rd' = [rd EXCEPT !.pc = "cloneJobs",
                      !.part = [@ EXCEPT !.startedAt = heap[rd.cell].startedAt,
                                         !.completedAt = heap[rd.cell].completedAt]]
  /\ UNCHANGED <<now, workflows, workflowRuns, docs, heap, task, del, triggers, uploads,
                 deletes, faults, reads, hist, upErr,
               upDoc, upWf, ctxDone, dk, mc>>

\* Clone, lines 60-61 and 66-71: a new map and a new slice are filled, the
\* lock is released and the copy returned: it shares no memory with the run.
\* Variant of CloneShares: a copy of the struct alone.
CloneShares_Shallow == {"jobs", "jobOrder"}
CloneShares == {}
Clone_End ==
  /\ rd.pc = "cloneJobs"
  /\ LET r == heap[rd.cell]
         copy == [rd.part EXCEPT !.jobs = [k \in DOMAIN r.jobs |-> r.jobs[k]],
                                 !.jobOrder = [i \in 1..Len(r.jobOrder) |-> r.jobOrder[i]]]
         todo == rd.todo \ {rd.cell}
     IN rd' = [rd EXCEPT !.pc = NextPc(todo), !.todo = todo, !.part = NoRun,
                         !.snaps = Put(@, rd.cell, copy), !.shared = CloneShares]
  /\ UNCHANGED <<now, workflows, workflowRuns, docs, heap, task, del, triggers, uploads,
                 deletes, faults, reads, hist, upErr,
               upDoc, upWf, ctxDone, dk, mc>>

\* What a caller reads through its result: the memory of the run object for
\* the parts it shares with it, its own copy for the others.
View(r, hp) ==
  [c \in DOMAIN r.snaps |->
     LET own == r.snaps[c]
         obj == IF "struct" \in r.shared THEN hp[c] ELSE own
     IN [obj EXCEPT !.jobs = IF "jobs" \in r.shared THEN hp[c].jobs ELSE own.jobs,
                    !.jobOrder = IF "jobOrder" \in r.shared THEN hp[c].jobOrder
                                 ELSE own.jobOrder]]

\* A caller changes the run it got from Clone, GetRun or ListRuns (as
\* TestWorkflowRun_Clone does): the status, an entry of the job mapping and
\* the elements of job_order.  Each write goes to the memory the result
\* refers to: the run object for a part shared with it, the copy otherwise.
AllParts == {"struct", "jobs", "jobOrder"}
EditParts(r, ps) ==
  [r EXCEPT !.status = IF "struct" \in ps THEN "edited" ELSE @,
            !.jobs = IF "jobs" \in ps THEN Put(@, "Z", ZeroJob) ELSE @,
            !.jobOrder = IF "jobOrder" \in ps THEN [i \in 1..Len(@) |-> "Z"] ELSE @]
Caller_Mutate(c) ==
  /\ rd.pc = "got"
  /\ rd.kind \in {"GetRun", "ListRuns", "Clone"}
  /\ c \in DOMAIN rd.snaps
  /\ ~rd.edited
  /\ rd' = [rd EXCEPT !.snaps[c] = EditParts(@, AllParts \ rd.shared), !.edited = TRUE]
  /\ heap' = [heap EXCEPT ![c] = EditParts(@, rd.shared)]
  /\ UNCHANGED <<now, workflows, workflowRuns, docs, task, del, triggers, uploads,
                 deletes, faults, reads, hist, upErr,
               upDoc, upWf, ctxDone, dk, mc>>

\* HandleTriggerWorkflow, part_001 lines 72-82: TriggerWorkflow has returned
\* the run object that runJobs works on (server.go 237-239), and the
\* handler encodes it field by field, in the order of the struct, without
\* the lock of the run.
TriggerShares == AllParts
Encode_Begin(t) ==
  /\ CallerFree
  /\ Returned(t)
  /\ ~task[t].resp
  /\ reads' = reads - 1
  /\ task' = [task EXCEPT ![t].resp = TRUE]
  /\ rd' = [IdleReader EXCEPT !.pc = "encodeJobs", !.kind = "Trigger", !.cell = t,
                              !.todo = {t}, !.shared = TriggerShares,
                              !.part = [NoRun EXCEPT !.id = heap[t].id,
                                                     !.workflowName = heap[t].workflowName,
                                                     !.status = heap[t].status]]
  /\ UNCHANGED <<now, workflows, workflowRuns, docs, heap, del, triggers, uploads,
                 deletes, faults, hist, upErr,
               upDoc, upWf, ctxDone, dk, mc>>

Encode_Jobs ==
  /\ rd.pc = "encodeJobs"
  /\ rd' = [rd EXCEPT !.pc = "encodeTimes",
                      !.part = [@ EXCEPT !.jobs = heap[rd.cell].jobs,
                                         !.jobOrder = heap[rd.cell].jobOrder]]
  /\ UNCHANGED <<now, workflows, workflowRuns, docs, heap, task, del, triggers, uploads,
                 deletes, faults, reads, hist, upErr,
               upDoc, upWf, ctxDone, dk, mc>>

Encode_End ==
  /\ rd.pc = "encodeTimes"
  /\ LET body == [rd.part EXCEPT !.startedAt = heap[rd.cell].startedAt,
                                 !.completedAt = heap[rd.cell].completedAt]
     IN rd' = [rd EXCEPT !.pc = "got", !.todo = {}, !.part = NoRun,
                         !.snaps = Put(@, rd.cell, body)]
  /\ UNCHANGED <<now, workflows, workflowRuns, docs, heap, task, del, triggers, uploads,
                 deletes, faults, reads, hist, upErr,
               upDoc, upWf, ctxDone, dk, mc>>

\* The wall clock moves on.
\* ----------------------------------------- MemoryStorage, call by call
\* memory.go 25-76 with the mutex made explicit: every operation locks,
\* reads the table, writes it, and unlocks on return.
StoreOps == {"SaveWorkflow", "DeleteWorkflow", "ListWorkflows", "SaveRun"}
Writes(op) == op \in {"SaveWorkflow", "DeleteWorkflow", "SaveRun"}
\* The workflow caller c saves (its name differs from caller to caller), the
\* workflow DeleteWorkflow is called for, and the run id caller c saves.
NameOf(c) == "W" \o ToString(c)
WorkflowOf(c) == [name |-> NameOf(c), jobs |-> EmptyMap, jobOrder |-> <<>>]
DeletedName == NameOf(1)
RunOf(c) == NewRun(c, WorkflowOf(c), 0)
OkRes == [err |-> FALSE, names |-> {}]

\* One operation on the two tables, as its body does it under the lock:
\* the tables afterwards and what the call returns.
Apply(op, c, wfs, rs) ==
  CASE op = "SaveWorkflow" ->
         [wfs |-> SaveWorkflow(wfs, WorkflowOf(c)), rs |-> rs, res |-> OkRes]
    [] op = "DeleteWorkflow" ->
         IF DeletedName \in DOMAIN wfs
         THEN [wfs |-> Remove(wfs, {DeletedName}), rs |-> rs, res |-> OkRes]
         ELSE [wfs |-> wfs, rs |-> rs, res |-> [err |-> TRUE, names |-> {}]]
    [] op = "ListWorkflows" ->
         [wfs |-> wfs, rs |-> rs, res |-> [err |-> FALSE, names |-> DOMAIN wfs]]
    [] op = "SaveRun" ->
         [wfs |-> wfs, rs |-> SaveRun(rs, c, c), res |-> OkRes]

StoreFrame ==
  UNCHANGED <<now, task, del, triggers, uploads, deletes, faults, rd, reads, upErr,
              upDoc, upWf, ctxDone, dk>>

\* A goroutine calls an operation of the store (SaveRun with a new run).
Store_Call(c, op) ==
  /\ mc.call[c].pc = "idle"
  /\ mc' = [mc EXCEPT !.call[c] =
              [IdleCall EXCEPT !.pc = "lock", !.op = op,
                 !.before = {d \in StoreCallers : mc.call[d].pc = "returned"}]]
  /\ heap' = IF op = "SaveRun" THEN Put(heap, c, RunOf(c)) ELSE heap
  /\ hist' = Seen(hist, heap')
  /\ UNCHANGED <<workflows, workflowRuns, docs>>
  /\ StoreFrame

\* Variant of MuFree: the operations do not wait for the mutex.
MuFree_NoLock(write) == TRUE
\* sync.RWMutex: Lock waits for every holder, RLock for the writer.
MuFree(write) == IF write THEN mc.w = 0 /\ mc.r = {} ELSE mc.w = 0
\* s.mu.Lock() / s.mu.RLock()
Store_Lock(c) ==
  /\ mc.call[c].pc = "lock"
  /\ MuFree(Writes(mc.call[c].op))
  /\ mc' = IF Writes(mc.call[c].op)
           THEN [mc EXCEPT !.w = c, !.call[c].pc = "read"]
           ELSE [mc EXCEPT !.r = @ \cup {c}, !.call[c].pc = "read"]
  /\ UNCHANGED <<workflows, workflowRuns, docs, heap, hist>>
  /\ StoreFrame
\* The body reads the table: the lookup of DeleteWorkflow, the range of
\* ListWorkflows, the map a write is about to change.
Store_Read(c) ==
  /\ mc.call[c].pc = "read"
  /\ mc' = [mc EXCEPT !.call[c].pc = "write",
                      !.call[c].snap = <<workflows, workflowRuns>>]
  /\ UNCHANGED <<workflows, workflowRuns, docs, heap, hist>>
  /\ StoreFrame
\* The body writes the table (a write that is not alone on the map is a
\* data race: it puts back the map as the call has read it, changed).
Store_Write(c) ==
  /\ mc.call[c].pc = "write"
  /\ LET a == Apply(mc.call[c].op, c, mc.call[c].snap[1], mc.call[c].snap[2])
     IN /\ workflows' = IF mc.call[c].op \in {"SaveWorkflow", "DeleteWorkflow"}
                        THEN a.wfs ELSE workflows
        /\ workflowRuns' = IF mc.call[c].op = "SaveRun" THEN a.rs ELSE workflowRuns
        /\ mc' = [mc EXCEPT !.call[c].pc = "unlock", !.call[c].res = <<a.res>>]
  /\ UNCHANGED <<docs, heap, hist>>
  /\ StoreFrame
\* defer s.mu.Unlock() / RUnlock(), and the return.
Store_Unlock(c) ==
  /\ mc.call[c].pc = "unlock"
  /\ mc' = [mc EXCEPT !.w = IF @ = c THEN 0 ELSE @, !.r = @ \ {c},
                      !.call[c].pc = "returned"]
  /\ UNCHANGED <<workflows, workflowRuns, docs, heap, hist>>
  /\ StoreFrame

NextMem ==
  \/ \E c \in StoreCallers, op \in StoreOps : Store_Call(c, op)
  \/ \E c \in StoreCallers : Store_Lock(c)
  \/ \E c \in StoreCallers : Store_Read(c)
  \/ \E c \in StoreCallers : Store_Write(c)
  \/ \E c \in StoreCallers : Store_Unlock(c)

\* ------------------------------------------------------- DockerExecutor
\* docker.go.  An Execute call is a sequence of requests to the container
\* daemon; each request can fail, and the script in the container can exit
\* with a non-zero status at any of its steps.
MaxExecs == 2         \* Execute calls made on the executor

DockerFrame ==
  UNCHANGED <<now, workflows, workflowRuns, docs, heap, task, del, triggers, uploads,
              deletes, faults, rd, reads, hist, upErr, upDoc, upWf, ctxDone, mc>>

\* lines 40-43: the image is chosen by runs-on.
ImageOf(runsOn) == IF runsOn = "alpine" THEN "alpine:latest" ELSE "ubuntu:latest"

\* lines 46-52 and the shell's set -e: what the container has written when
\* the command of step `failed` exits non-zero (0: no command fails): both
\* markers and the command's output for the steps before it, and for the
\* failing step the first marker and the command's output.
\* Variant of ScriptOutput: without set -e the script goes on after a
\* command has failed.
RECURSIVE ScriptOutput_NoAbort(_, _, _)
ScriptOutput_NoAbort(steps, i, failed) ==
  IF i > Len(steps) THEN <<>>
  ELSE <<<<"Starting", steps[i].name>>, <<"output", steps[i].run>>,
         <<"Completed", steps[i].name>>>> \o ScriptOutput_NoAbort(steps, i + 1, failed)
RECURSIVE ScriptOutput(_, _, _)
ScriptOutput(steps, i, failed) ==
  IF i > Len(steps) THEN <<>>
  ELSE LET begun == <<<<"Starting", steps[i].name>>, <<"output", steps[i].run>>>>
       IN IF i = failed THEN begun
          ELSE begun \o <<<<"Completed", steps[i].name>>>>
                     \o ScriptOutput(steps, i + 1, failed)

\* line 36: Execute is called with a job.
Execute_Call(steps, runsOn) ==
  /\ dk.pc \in {"idle", "returned"}
  /\ dk.calls < MaxExecs
  /\ dk' = [dk EXCEPT !.pc = "pull", !.steps = steps, !.image = ImageOf(runsOn),
                      !.id = 0, !.exit = 0, !.out = <<>>, !.err = "",
                      !.calls = @ + 1]
  /\ DockerFrame

\* lines 55-70: ImagePull; its error is returned with no output.
Execute_ImagePull ==
  /\ dk.pc = "pull"
  /\ \E ok \in BOOLEAN :
       dk' = IF ok THEN [dk EXCEPT !.pc = "create"]
             ELSE [dk EXCEPT !.pc = "returned", !.err = "failed to pull image"]
  /\ DockerFrame

\* lines 72-82: ContainerCreate makes a container that did not exist (the
\* daemon names the n-th one n); its command is the script of the job.
\* Variant of NewContainer: the first container is used again.
NewContainer_Reuse(n) == 1
NewContainer(n) == n
\* lines 46-52 and 76-79: the commands that have run in container c when
\* the script of call n ends at step `failed` (0: at its end).
StepsRun(steps, failed, c, n) ==
  {[container |-> c, call |-> n, step |-> k] :
     k \in 1..(IF failed = 0 THEN Len(steps) ELSE failed)}

\* lines 72-82: ContainerCreate; its error is returned with no output.
Execute_ContainerCreate ==
  /\ dk.pc = "create"
  /\ \E ok \in BOOLEAN :
       dk' = IF ok THEN [dk EXCEPT !.pc = "start", !.id = NewContainer(dk.calls),
                                  !.live = @ \cup {NewContainer(dk.calls)}]
             ELSE [dk EXCEPT !.pc = "returned", !.err = "failed to create container"]
  /\ DockerFrame

\* lines 84-90: ContainerStart; its error is returned at once.
Execute_ContainerStart ==
  /\ dk.pc = "start"
  /\ \E ok \in BOOLEAN :
       dk' = IF ok THEN [dk EXCEPT !.pc = "wait"]
             ELSE [dk EXCEPT !.pc = "returned", !.err = "failed to start container"]
  /\ DockerFrame

\* lines 92-106: ContainerWait with the context of the caller of Execute.
\* An error (of the daemon, or the context cancelled or expired) is
\* returned at once; otherwise the script has ended, with status 0 or with
\* a non-zero status at one of its steps.
Execute_ContainerWait ==
  /\ dk.pc = "wait"
  /\ \/ dk' = [dk EXCEPT !.pc = "returned", !.err = "error waiting for container"]
     \/ \E failed \in 0..Len(dk.steps) :
          dk' = [dk EXCEPT !.pc = "logs", !.exit = failed,
                          !.ran = @ \cup StepsRun(dk.steps, failed, dk.id, dk.calls)]
  /\ DockerFrame

\* lines 117-131, called at 101 and 109: the logs of the container, or the
\* text of the error of the ContainerLogs request.
GetContainerLogs ==
  /\ dk.pc = "logs"
  /\ \E ok \in BOOLEAN :
       dk' = [dk EXCEPT !.pc = "cleanup",
                       !.out = IF ok THEN ScriptOutput(dk.steps, 1, dk.exit)
                               ELSE <<<<"Failed to get logs">>>>]
  /\ DockerFrame

\* lines 134-142, called at 102 and 112: the container is removed, and
\* Execute returns the logs, with an error after a non-zero status.
CleanupContainer ==
  /\ dk.pc = "cleanup"
  /\ dk' = [dk EXCEPT !.pc = "returned", !.live = @ \ {dk.id},
                      !.err = IF dk.exit # 0 THEN "container exited with status"
                              ELSE ""]
  /\ DockerFrame

\* The executor on its own: one Execute call after the other.  The jobs it is given have passed Validate: steps with names and commands.
ExecSteps == {OkStep, <<Step("t", "ls")>>, <<Step("s", "echo"), Step("t", "ls")>>}
NextDocker ==
  \/ \E steps \in ExecSteps, runsOn \in {"ubuntu", "alpine"} : Execute_Call(steps, runsOn)
  \/ Execute_ImagePull
  \/ Execute_ContainerCreate
  \/ Execute_ContainerStart
  \/ Execute_ContainerWait
  \/ GetContainerLogs
  \/ CleanupContainer

\* The context the caller has passed to TriggerWorkflow is cancelled or
\* expires, at some point after the call has returned (the HTTP server
\* cancels the request context when the handler is done).
CancelCallerCtx(t) ==
  /\ Returned(t)
  /\ ~ctxDone[t]
  /\ ctxDone' = [ctxDone EXCEPT ![t] = TRUE]
  /\ UNCHANGED <<now, workflows, workflowRuns, docs, heap, task, del, triggers, uploads,
                 deletes, faults, rd, reads, hist, upErr, upDoc, upWf, dk, mc>>

Tick ==
  /\ now < MaxClock
  /\ now' = now + 1
  /\ UNCHANGED <<workflows, workflowRuns, docs, heap, task, del, uploads, deletes,
               triggers, faults, rd, reads, hist, upErr,
               upDoc, upWf, ctxDone, dk, mc>>

TaskStep(t) ==
  \/ ExecuteWorkflow_RunID(t)
  \/ ExecuteWorkflow_SaveRun(t)
  \/ RunJobs_Start(t)
  \/ RunJobs_MarkRunning(t)
  \/ RunJobs_PersistRunning(t)
  \/ RunJobs_ExecuteCall(t)
  \/ RunJobs_ExecuteReturn(t)
  \/ RunJobs_Record(t)
  \/ RunJobs_PersistResult(t)
  \/ RunJobs_SetStatus(t)
  \/ RunJobs_PersistStatus(t)
  \/ RunJobs_Complete(t)
  \/ RunJobs_PersistFinal(t)

\* The whole system: two concurrent triggers, an upload and a delete.
Next ==
  \/ \E doc \in Docs : ParseAndSaveWorkflow(doc)
  \/ \E t \in Calls, name \in Names : TriggerWorkflow(t, name)
  \/ \E t \in Calls : TaskStep(t)
  \/ \E name \in Names : DeleteWorkflow_Runs(name)
  \/ DeleteWorkflow_Workflow
  \/ Tick
Spec == Init /\ [][Next]_vars

\* One triggered run from the empty store, with the three-job workflow.
InitRun == InitWith(1, MaxUploads, MaxDeletes, 0, 0)
NextRun ==
  \/ \E doc \in RunDocs : ParseAndSaveWorkflow(doc)
  \/ \E t \in Calls, name \in Names : TriggerWorkflow(t, name)
  \/ \E t \in Calls : TaskStep(t)
  \/ \E name \in Names : DeleteWorkflow_Runs(name)
  \/ DeleteWorkflow_Workflow
  \/ Tick
SpecRun == InitRun /\ [][NextRun]_vars

\* The same under the scheduling the Go runtime gives: the goroutine of a
\* triggered call keeps being scheduled and every Execute call returns.
FairRun == SpecRun /\ \A t \in Calls : WF_vars(TaskStep(t))

\* One triggered run against a store that fails up to MaxFaults calls.
InitStore == InitWith(1, MaxUploads, MaxDeletes, MaxFaults, 0)
SpecStore == InitStore /\ [][NextRun]_vars
FairStore == SpecStore /\ \A t \in Calls : WF_vars(TaskStep(t))


\* One triggered run and an external caller that reads: GetRun, ListRuns,
\* and the handler that encodes the response of the trigger.
RunIds == {RunIDOf(c) : c \in 0..MaxClock}
InitObs == InitWith(1, MaxUploads, 0, 0, MaxReads)
NextObs ==
  \/ \E doc \in RunDocs : ParseAndSaveWorkflow(doc)
  \/ \E t \in Calls, name \in Names : TriggerWorkflow(t, name)
  \/ \E t \in Calls : TaskStep(t)
  \/ \E id \in RunIds : GetRun_Call(id)
  \/ ListRuns_Call
  \/ \E t \in Calls : Clone_Call(t)
  \/ \E c \in Calls : Clone_Begin(c)
  \/ Clone_Times
  \/ Clone_End
  \/ \E t \in Calls : Encode_Begin(t)
  \/ Encode_Jobs
  \/ Encode_End
  \/ Tick
SpecObs == InitObs /\ [][NextObs]_vars

\* One triggered run and a caller that writes to the copies it gets.
NextCopy ==
  \/ \E doc \in RunDocs : ParseAndSaveWorkflow(doc)
  \/ \E t \in Calls, name \in Names : TriggerWorkflow(t, name)
  \/ \E t \in Calls : TaskStep(t)
  \/ \E id \in RunIds : GetRun_Call(id)
  \/ ListRuns_Call
  \/ \E t \in Calls : Clone_Call(t)
  \/ \E c \in Calls : Clone_Begin(c)
  \/ Clone_Times
  \/ Clone_End
  \/ \E c \in Calls : Caller_Mutate(c)
  \/ Tick
SpecCopy == InitObs /\ [][NextCopy]_vars

\* A client that issues its calls one at a time: an upload, a trigger or a
\* delete starts only when no call and no run is in progress.  Two
\* workflows, two runs, one delete.
Quiescent ==
  /\ \A t \in Calls : task[t].pc \in {"idle", "done", "notFound", "saveErr"}
  /\ del.pc # "deleteWorkflow"
SeqDocs == {DocBA, DocY, DocNoStep, DocBad}
InitSeq == InitWith(2, 2, MaxDeletes, 0, 0)
NextSeq ==
  \/ Quiescent /\ \E doc \in SeqDocs : ParseAndSaveWorkflow(doc)
  \/ Quiescent /\ \E t \in Calls, name \in Names : TriggerWorkflow(t, name)
  \/ \E t \in Calls : TaskStep(t)
  \/ Quiescent /\ \E name \in Names : DeleteWorkflow_Runs(name)
  \/ DeleteWorkflow_Workflow
  \/ Tick
SpecSeq == InitSeq /\ [][NextSeq]_vars

\* =================================================================== claims
Terminal(r) == r.status \in {"success", "failed"} /\ r.completedAt # NoTime
StatusOf(r, k) == IF k \in DOMAIN r.jobs THEN r.jobs[k].status ELSE "absent"
Prefix(order, n) == {order[j] : j \in 1..n}
Finishing == {"persistStatus", "complete", "persistFinal", "done"}

\* C1: stop-on-first-failure.  Once Execute has returned an error for the
\* job at position i of a run, Execute has been called exactly i times for
\* the run, no job at a position after i is in the run's job mapping (none
\* is marked running) and the task is not at a job of the loop any more.
C1_StopOnFirstFailure ==
  \A t \in Calls :
    task[t].failedAt # 0 =>
      /\ Len(task[t].execLog) = task[t].failedAt
      /\ task[t].idx = task[t].failedAt
      /\ task[t].pc # "mark"
      /\ \A j \in (task[t].failedAt + 1)..Len(heap[t].jobOrder) :
           StatusOf(heap[t], heap[t].jobOrder[j]) = "absent"
C1_Witness ==
  \E t \in Calls :
    /\ task[t].pc = "done"
    /\ task[t].failedAt = 1
    /\ Len(heap[t].jobOrder) = 3

\* C2: within a run Execute is called on the jobs in the sequence of
\* job_order, each job at most once; a job is started only when the job
\* before it has returned with success; at most one job is running.
C2_SequentialOnce ==
  \A t \in DOMAIN heap :
    LET r == heap[t]
        log == task[t].execLog
    IN /\ Len(log) <= Len(r.jobOrder)
       /\ \A j \in 1..Len(log) : log[j] = r.jobOrder[j]
       /\ \A a, b \in 1..Len(log) : log[a] = log[b] => a = b
       /\ \E n \in 0..Len(r.jobOrder) :
            /\ DOMAIN r.jobs = Prefix(r.jobOrder, n)
            /\ \A j \in 1..(n - 1) : r.jobs[r.jobOrder[j]].status = "success"
            /\ Len(log) \in {n - 1, n}
       /\ Cardinality({k \in DOMAIN r.jobs : r.jobs[k].status = "running"}) <= 1
C2_Witness ==
  \E t \in DOMAIN heap :
    /\ task[t].execLog = <<"A", "B", "C">>
    /\ task[t].pc = "inExecute"
    /\ heap[t].jobs["B"].status = "success"

\* C3: when the job loop has ended and the overall status has been set, the
\* status is success if and only if every job that was executed ended with
\* status success, and failed if an executed job failed.
C3_StatusIffAllSuccess ==
  \A t \in DOMAIN heap :
    task[t].pc \in Finishing =>
      LET r == heap[t]
      IN /\ r.status \in {"success", "failed"}
         /\ r.status = "success" <=>
              \A k \in DOMAIN r.jobs : r.jobs[k].status = "success"
         /\ (\E k \in DOMAIN r.jobs : r.jobs[k].status = "failed")
              => r.status = "failed"
C3_Witness ==
  \E t \in DOMAIN heap :
    /\ task[t].pc = "done"
    /\ heap[t].status = "failed"
    /\ StatusOf(heap[t], "A") = "success"
    /\ StatusOf(heap[t], "B") = "failed"

\* C4: a run of job_order [A, B, C] where Execute succeeds on A and fails
\* on B ends with A success, B failed and run status failed.
ABFailed(t) ==
  /\ t \in DOMAIN heap
  /\ task[t].pc = "done"
  /\ heap[t].jobOrder = <<"A", "B", "C">>
  /\ task[t].failedAt = 2
\* C4 as claimed: C is in the job mapping with status pending.
C4_Original ==
  \A t \in Calls :
    ABFailed(t) =>
      /\ StatusOf(heap[t], "A") = "success"
      /\ StatusOf(heap[t], "B") = "failed"
      /\ StatusOf(heap[t], "C") = "pending"
      /\ heap[t].status = "failed"
\* C4 as amended: C, never started, has no entry in the job mapping.
C4_Amended ==
  \A t \in Calls :
    ABFailed(t) =>
      /\ StatusOf(heap[t], "A") = "success"
      /\ StatusOf(heap[t], "B") = "failed"
      /\ DOMAIN heap[t].jobs = {"A", "B"}
      /\ heap[t].status = "failed"
C4_Witness == \E t \in Calls : ABFailed(t)

\* C5: terminal states are final.  Once a run has a terminal status and
\* completed_at set, no step changes the run object, and the record stored
\* under its id never again shows a non-terminal status.
StoredTerminal(rs, hp, id) == id \in DOMAIN rs => Terminal(hp[rs[id]])
C5_TerminalFinal ==
  [][ /\ \A t \in DOMAIN heap : Terminal(heap[t]) => heap'[t] = heap[t]
      /\ \A id \in DOMAIN workflowRuns :
           Terminal(heap[workflowRuns[id]]) => StoredTerminal(workflowRuns', heap', id)
    ]_vars

\* C6: every run record created by a trigger eventually has status success
\* or failed and completed_at set.
C6_EventuallyTerminal ==
  \A t \in Calls :
    (t \in DOMAIN heap) ~> (t \in DOMAIN heap /\ Terminal(heap[t]))
C6_Witness ==
  \E t \in DOMAIN heap : Terminal(heap[t]) /\ Len(task[t].execLog) = 3

\* C7: two triggers create two runs with distinct ids, each retrievable
\* from the store by its id unless a delete has removed it.
C7_DistinctIds ==
  \A t1, t2 \in DOMAIN heap : t1 # t2 => heap[t1].id # heap[t2].id

\* C8: a run whose jobs all succeed ends with status success and with
\* completed_at set and not earlier than started_at.
AllSucceeded(t) ==
  /\ t \in DOMAIN heap
  /\ task[t].pc = "done"
  /\ task[t].failedAt = 0
C8_SuccessCompleted ==
  \A t \in Calls :
    AllSucceeded(t) =>
      /\ heap[t].status = "success"
      /\ heap[t].completedAt # NoTime
      /\ heap[t].completedAt >= heap[t].startedAt
C8_Witness ==
  \E t \in Calls :
    /\ AllSucceeded(t)
    /\ Len(task[t].execLog) = 3
    /\ heap[t].startedAt = 1

\* C9: completed_at is set exactly once.  It is unset while a job of the
\* run is to be started or running and before the overall status is set,
\* it is set when the task is done, and once set it never changes.
C9_State ==
  \A t \in DOMAIN heap :
    /\ heap[t].completedAt # NoTime =>
         /\ task[t].pc \in {"persistFinal", "done"}
         /\ heap[t].status \in {"success", "failed"}
         /\ \A k \in DOMAIN heap[t].jobs : heap[t].jobs[k].status # "running"
    /\ task[t].pc = "done" => heap[t].completedAt # NoTime
C9_CompletedOnce ==
  /\ []C9_State
  /\ [][\A t \in DOMAIN heap :
          heap[t].completedAt # NoTime => heap'[t].completedAt = heap[t].completedAt]_vars
C9_Witness ==
  \E t \in DOMAIN heap :
    /\ task[t].pc = "done"
    /\ heap[t].completedAt = 1
    /\ heap[t].startedAt = 0

\* C10: progress is persisted per job.  While job i of a run is inside
\* Execute, GetRun of the run's id (when the id is in the store) shows the
\* jobs before i with status success and job i with status running.
C10_ObserverSeesProgress ==
  \A t \in DOMAIN heap :
    (task[t].pc = "inExecute" /\ GetRunOk(heap[t].id)) =>
      LET r == GetRun(heap[t].id)
      IN /\ \A j \in 1..(task[t].idx - 1) :
              StatusOf(r, task[t].jobOrder[j]) = "success"
         /\ StatusOf(r, JobName(t)) = "running"

\* ------------------------------------------------- storage errors (C11..)
PersistPcs == {"persistRunning", "persistResult", "persistStatus", "persistFinal"}
\* Where a task at an UpdateRun call is after the call when the call succeeds.
AfterUpdateOk(tk) ==
  CASE tk.pc = "persistRunning" -> "callExecute"
    [] tk.pc = "persistResult"  -> AfterJob(tk.err, tk.jobOrder, tk.idx).pc
    [] tk.pc = "persistStatus"  -> "complete"
    [] OTHER                    -> "done"
\* The run a finished task leaves behind, as the results of its Execute
\* calls alone determine it.
OutcomeOf(t) ==
  LET order == task[t].jobOrder
      n == IF task[t].failedAt # 0 THEN task[t].failedAt ELSE Len(order)
      r == heap[t]
  IN /\ task[t].execLog = SubSeq(order, 1, n)
     /\ DOMAIN r.jobs = Prefix(order, n)
     /\ \A j \in 1..n :
          r.jobs[order[j]].status = IF j = task[t].failedAt THEN "failed" ELSE "success"
     /\ r.status = FinalStatus(task[t].failedAt = 0)
     /\ r.completedAt # NoTime
C11_Step ==
  \A t \in Calls :
    (task[t].pc \in PersistPcs /\ task'[t] # task[t]) =>
      /\ heap' = heap
      /\ task'[t].pc = AfterUpdateOk(task[t])
      /\ task'[t].execLog = task[t].execLog
      /\ task'[t].allSuccess = task[t].allSuccess
C11_Outcome == \A t \in Calls : task[t].pc = "done" => OutcomeOf(t)

\* C11: an UpdateRun that returns an error (of the database, or not found
\* after a cascade delete) never aborts the run.  Whatever calls fail, the
\* step of the task at an UpdateRun call leaves the run object, the Execute
\* log and allSuccess alone and goes where a successful call goes, and the
\* finished run has the jobs, job statuses, final status and completed_at
\* that the results of Execute determine.
C11_UpdateErrorsIgnored == [][C11_Step]_vars /\ []C11_Outcome
C11_Witness ==
  \E t \in Calls :
    /\ faults = 0
    /\ task[t].pc = "done"
    /\ task[t].execLog = <<"A", "B", "C">>
    /\ heap[t].status = "success"
    /\ heap[t].id \notin DOMAIN workflowRuns

\* ------------------------------------------------------- snapshots (C12..)
FromStore == rd.kind \in {"GetRun", "ListRuns"}
Cloned == FromStore \/ rd.kind = "Clone"

\* C12: no torn snapshot.  Every run that GetRun or ListRuns (or Clone,
\* which makes their copies) has returned, and the caller has not written
\* to, equals in all its fields a state that the run object had at one
\* instant of its execution.
C12_NoTornSnapshot ==
  (Cloned /\ ~rd.edited) => \A c \in DOMAIN rd.snaps : rd.snaps[c] \in hist[c]
C12_Witness ==
  \E c \in DOMAIN rd.snaps :
    /\ FromStore
    /\ rd.pc = "got"
    /\ ~rd.edited
    /\ rd.snaps[c].status = "running"
    /\ StatusOf(rd.snaps[c], "B") = "running"
    /\ heap[c].status = "failed"
    /\ task[c].pc = "complete"

C13_Step ==
  /\ (rd' = rd /\ rd.pc = "got" /\ Cloned) => View(rd', heap') = View(rd, heap)
  /\ (rd.pc = "got" /\ rd'.edited /\ rd' # rd) => heap' = heap
\* C13: a run returned by Clone, GetRun or ListRuns is an independent copy.
\* A step in which the caller writes to the copy (its status, an entry of
\* its job mapping, an element of its job_order) leaves every run object
\* unchanged, and a step of anyone else (the orchestrator writing to the
\* run object) leaves what the caller reads through the copy unchanged.
C13_IndependentCopy == [][C13_Step]_vars
C13_Witness ==
  \E c \in DOMAIN rd.snaps :
    /\ Cloned
    /\ rd.snaps[c].status = "edited"
    /\ "Z" \in DOMAIN rd.snaps[c].jobs
    /\ rd.snaps[c].jobOrder = <<"Z", "Z", "Z">>
    /\ heap[c].status = "success"
    /\ heap[c].jobOrder = <<"A", "B", "C">>
    /\ DOMAIN heap[c].jobs = {"A", "B", "C"}
    /\ task[c].pc = "done"

\* The caller is reading the run object of cell c without its lock.
UnlockedRead(c) == rd.pc \in {"encodeJobs", "encodeTimes"} /\ rd.cell = c
\* The background task of c can still write to its run object.
CanWrite(c) == Returned(c) /\ task[c].pc \notin {"persistFinal", "done"}
\* C14: every run object handed to an external caller, the one that
\* TriggerWorkflow returns to the HTTP handler included, shares no memory
\* with the run object the background task writes to, and no caller reads
\* the run object outside its lock while the task can still write to it.
C14_HandedOutIsSnapshot ==
  /\ rd.kind # "" => rd.shared = {}
  /\ \A c \in Calls : ~(UnlockedRead(c) /\ CanWrite(c))
\* The response the handler has encoded is a state the run object had.
C14_ResponseIsState ==
  (rd.kind = "Trigger" /\ rd.pc = "got") => \A c \in DOMAIN rd.snaps : rd.snaps[c] \in hist[c]

\* ---------------------------------------------------------- delete (C15..)
RunsOf(rs, hp, name) == {id \in DOMAIN rs : hp[rs[id]].workflowName = name}
\* The cascade step of Server.DeleteWorkflow(X): the runs of X leave the
\* table, every other run stays, bound to the same unchanged run object;
\* with no run of X the table is left as it is and the call goes on.
C15_Cascade ==
  (del.pc # "deleteWorkflow" /\ del'.pc = "deleteWorkflow") =>
    LET X == del'.name
    IN /\ RunsOf(workflowRuns', heap', X) = {}
       /\ \A id \in DOMAIN workflowRuns \ RunsOf(workflowRuns, heap, X) :
            /\ id \in DOMAIN workflowRuns'
            /\ heap'[workflowRuns'[id]] = heap[workflowRuns[id]]
       /\ RunsOf(workflowRuns, heap, X) = {} => workflowRuns' = workflowRuns
\* The return of a successful Server.DeleteWorkflow(X).
C15_Return ==
  (del.pc = "deleteWorkflow" /\ del'.pc = "idle") =>
    LET X == del.name
    IN /\ \A r \in ListRuns' : r.workflowName # X
       /\ X \notin DOMAIN workflows'
       /\ ListRuns' = ListRuns
CallsUpdateRun(t) == task[t].pc \in PersistPcs /\ task'[t].pc # task[t].pc
C16_Step ==
  \A t \in Calls :
    CallsUpdateRun(t) =>
      LET id == heap[t].id
          res == StorageUpdateRun(workflowRuns, id, t, FALSE)
      IN IF id \in DOMAIN workflowRuns
         THEN /\ ~res.err
              /\ DOMAIN workflowRuns' = DOMAIN workflowRuns
              /\ GetRunOk(id)' /\ GetRun(id)' = Clone(heap[t])
         ELSE /\ res.err
              /\ workflowRuns' = workflowRuns
\* C16: UpdateRun is strictly an update.  Called with the id of a run that
\* is not in the store it returns the not-found error and leaves the stored
\* runs as they are; called with an id that is in the store it succeeds,
\* and GetRun of the id then returns the state of the run passed to it.
C16_StrictUpdate == [][C16_Step]_vars
C16_Witness ==
  \E t \in Calls :
    /\ task[t].pc = "complete"
    /\ heap[t].status = "success"
    /\ StatusOf(heap[t], "C") = "success"
    /\ heap[t].id \notin DOMAIN workflowRuns
    /\ del.pc = "idle" /\ deletes = 0

\* -------------------------------------------------------- trigger (C17..)
\* The TriggerWorkflow call of t starts in this step.
Triggers(t) == task[t].pc = "idle" /\ task'[t].pc # "idle"
RunsBoundTo(rs, t) == {id \in DOMAIN rs : rs[id] = t}
C17_Step ==
  \A t \in Calls :
    /\ (Triggers(t) /\ task'[t].name \notin DOMAIN workflows) =>
         /\ task'[t].pc = "notFound"
         /\ workflowRuns' = workflowRuns
         /\ heap' = heap
    /\ task[t].pc = "notFound" => task'[t] = task[t]
C17_State ==
  \A t \in Calls :
    task[t].pc = "notFound" =>
      /\ t \notin DOMAIN heap
      /\ RunsBoundTo(workflowRuns, t) = {}
      /\ task[t].execLog = <<>>
\* C17: TriggerWorkflow on a name that is not in the store returns the
\* not-found error at once: the call creates no run object and no run
\* record, and afterwards takes no step (no background task, no Execute).
C17_UnknownWorkflow == [][C17_Step]_vars /\ []C17_State
C17_Witness ==
  \E t \in Calls :
    /\ task[t].pc = "notFound"
    /\ task[t].name = "Y"
    /\ "X" \in DOMAIN workflows
    /\ triggers = 0 /\ uploads = 0 /\ deletes = 0

\* executeWorkflow stores the run and returns it in this step.
ReturnsRun(t) == ~Returned(t) /\ Returned(t)'
C18_Step ==
  \A t \in Calls :
    ReturnsRun(t) =>
      LET id == task[t].runID
      IN /\ GetRunOk(id)'
         /\ GetRun(id)'.status = "running"
         /\ GetRun(id)'.completedAt = NoTime
         /\ GetRun(id)'.jobOrder = task[t].wf.jobOrder
         /\ GetRun(id)'.workflowName = task[t].name
         /\ GetRun(id)'.jobs = EmptyMap
         /\ task'[t].execLog = <<>>
\* C18: TriggerWorkflow on a stored workflow persists a new run with status
\* running, completed_at unset and the job_order of the workflow, and
\* returns while no job of the run has been started: at the return nothing
\* has been passed to Execute and the job mapping of the run is empty.
C18_TriggerReturnsAtOnce == [][C18_Step]_vars
C18_Witness ==
  \E t \in Calls :
    /\ task[t].pc = "start"
    /\ GetRunOk(task[t].runID)
    /\ GetRun(task[t].runID).jobOrder = <<"A", "B", "C">>
    /\ GetRun(task[t].runID).status = "running"
    /\ task[t].execLog = <<>>

\* The SaveRun call of executeWorkflow returns an error in this step.
SaveRunFails(t) ==
  /\ task[t].pc = "saveRun" /\ task'[t].pc # "saveRun"
  /\ faults' < faults
C19_Step ==
  \A t \in Calls :
    /\ SaveRunFails(t) =>
         /\ task'[t].pc = "saveErr"
         /\ workflowRuns' = workflowRuns
    /\ task[t].pc = "saveErr" =>
         /\ task'[t] = task[t]
         /\ heap'[t] = heap[t]
C19_State ==
  \A t \in Calls :
    task[t].pc = "saveErr" =>
      /\ ~Returned(t)
      /\ task[t].execLog = <<>>
      /\ heap[t].jobs = EmptyMap
      /\ RunsBoundTo(workflowRuns, t) = {}
\* C19: when the SaveRun of a triggered run fails, TriggerWorkflow returns
\* the error instead of a run, the run is not in the store, and the call
\* takes no further step: no background task is started and no job of the
\* run is ever passed to Execute or recorded.
C19_SaveRunError == [][C19_Step]_vars /\ []C19_State
C19_Witness ==
  \E t \in Calls :
    /\ task[t].pc = "saveErr"
    /\ task[t].wf.jobOrder = <<"A", "B", "C">>
    /\ faults = MaxFaults - 1

\* ------------------------------------------------------ ingestion (C20..)
\* yaml.go 61-87, said of a stored workflow: a name, at least one job,
\* every job with at least one step, every step with a name and a command.
WellFormed(wf) ==
  /\ wf.name # ""
  /\ DOMAIN wf.jobs # {}
  /\ \A k \in DOMAIN wf.jobs :
       /\ Len(wf.jobs[k].steps) > 0
       /\ \A i \in 1..Len(wf.jobs[k].steps) :
            wf.jobs[k].steps[i].name # "" /\ wf.jobs[k].steps[i].run # ""
C20_Step ==
  uploads' < uploads =>
    /\ upErr' # <<"ok">> => workflows' = workflows
    /\ workflows' # workflows =>
         /\ upErr' = <<"ok">>
         /\ \E n \in DOMAIN workflows' :
              /\ WellFormed(workflows'[n])
              /\ workflows'[n].name = n
              /\ \A m \in DOMAIN workflows \ {n} :
                   m \in DOMAIN workflows' /\ workflows'[m] = workflows[m]
              /\ DOMAIN workflows' = DOMAIN workflows \cup {n}
\* C20: workflow ingestion is all-or-nothing.  A ParseAndSaveWorkflow call
\* that fails in Parse or in Validate leaves the stored workflows exactly as
\* they were; the store changes only in a call that returns no error, and
\* then by one workflow that passes validation, saved under its name.
C20_AllOrNothing == [][C20_Step]_vars
C20_Witness ==
  /\ upErr \notin {<<>>, <<"ok">>, <<"parse">>}
  /\ uploads = 0
  /\ DOMAIN workflows = {"Y"}
  /\ WellFormed(workflows["Y"])

\* ------------------------------------------------- the parser (C21..C23)
\* The parser on its own: one ParseAndSaveWorkflow call after the other,
\* each with any of the documents of ParseDocs.
InitParse == InitWith(0, MaxUploads, 0, 0, 0)
NextParse == \E doc \in ParseDocs : ParseAndSaveWorkflow(doc)
SpecParse == InitParse /\ [][NextParse]_vars

RuleOf(err) ==
  CASE err = <<"ok">> -> 0
    [] err[1] = "workflow name is required" -> 1
    [] err[1] = "workflow must have at least one job" -> 2
    [] err[1] = "job must have at least one step" -> 3
    [] OTHER -> 4
LowestViolated(wf) ==
  IF wf.name = "" THEN 1
  ELSE IF DOMAIN wf.jobs = {} THEN 2
  ELSE IF \E k \in DOMAIN wf.jobs : Len(wf.jobs[k].steps) = 0 THEN 3
  ELSE IF WellFormed(wf) THEN 0 ELSE 4
\* C22: the error Validate reports is that of the lowest-numbered rule the
\* workflow breaks (1 name, 2 a job, 3 every job a step, 4 every step a name
\* and a command), whatever the order in which the jobs are visited.
C22_FirstRuleWins ==
  upWf # <<>> => RuleOf(upErr) = LowestViolated(upWf[1])
\* What holds instead: rules 1 and 2 come first, and the error is one that
\* some job of the workflow earns on its own.
C22_SomeJobsError ==
  upWf # <<>> =>
    LET wf == upWf[1]
    IN /\ LowestViolated(wf) \in {0, 1, 2} => RuleOf(upErr) = LowestViolated(wf)
       /\ LowestViolated(wf) \in {3, 4} =>
            \E k \in DOMAIN wf.jobs : upErr \in JobViolations(k, wf.jobs[k])

\* The keys of the jobs mapping in the order the document declares them.
DeclOrder(doc) == [i \in 1..Len(doc.decl) |-> doc.decl[i].key]
IsPermutationOf(order, S) ==
  /\ {order[i] : i \in 1..Len(order)} = S
  /\ Len(order) = Cardinality(S)
\* C23: for every document Parse accepts, job_order holds each key of jobs
\* exactly once and nothing else, in the order of declaration.
C23_JobOrderIsDeclOrder ==
  upWf # <<>> =>
    /\ IsPermutationOf(upWf[1].jobOrder, DOMAIN upWf[1].jobs)
    /\ upWf[1].jobOrder = DeclOrder(upDoc[1])
\* What holds instead: job_order is the declaration order of the keys that
\* are not empty, or the one empty key when there is no other.
C23_NonEmptyKeysInOrder ==
  upWf # <<>> =>
    \/ upWf[1].jobOrder = NonEmptyKeys(upDoc[1].decl) /\ upWf[1].jobOrder # <<>>
    \/ /\ NonEmptyKeys(upDoc[1].decl) = <<>>
       /\ IsPermutationOf(upWf[1].jobOrder, DOMAIN upWf[1].jobs)

\* ------------------------------------------- workflow edits (C24)
\* One triggered run while the workflow "X" is uploaded, uploaded again
\* with other jobs, and deleted, at any moment.
InitEdit == InitWith(1, 2, MaxDeletes, 0, 0)
NextEdit ==
  \/ \E doc \in EditDocs : ParseAndSaveWorkflow(doc)
  \/ \E t \in Calls : TriggerWorkflow(t, "X")
  \/ \E t \in Calls : TaskStep(t)
  \/ DeleteWorkflow_Runs("X")
  \/ DeleteWorkflow_Workflow
  \/ Tick
SpecEdit == InitEdit /\ [][NextEdit]_vars

\* The workflow of a call is fixed by its trigger: the one the store holds
\* at that moment, and no later step changes it.
C24_Step ==
  \A t \in Calls :
    /\ task[t].pc = "idle" /\ task'[t].pc = "runID" =>
         task'[t].wf = workflows[task'[t].name]
    /\ task[t].pc \notin {"idle", "notFound"} => task'[t].wf = task[t].wf
\* The run and the jobs its task executes are those of that workflow.
C24_State ==
  \A t \in Calls :
    task[t].pc \notin {"idle", "notFound"} /\ t \in DOMAIN heap =>
      LET wf == task[t].wf
      IN /\ heap[t].jobOrder = wf.jobOrder
         /\ task[t].execLog = SubSeq(wf.jobOrder, 1, Len(task[t].execLog))
         /\ \A k \in DOMAIN heap[t].jobs :
              k \in DOMAIN wf.jobs /\ heap[t].jobs[k].steps = wf.jobs[k].steps
         /\ task[t].pc = "inExecute" =>
              task[t].job.steps = wf.jobs[JobName(t)].steps
\* C24: a run is isolated from later edits of its workflow.  When the
\* workflow is uploaded again under the same name or deleted after
\* TriggerWorkflow has created the run, the run's job_order and the sequence
\* and definitions of the jobs its task executes stay those of the workflow
\* as it was at trigger time.
C24_RunIsolatedFromEdits == [][C24_Step]_vars /\ []C24_State
C24_Witness ==
  /\ task[1].pc = "done"
  /\ task[1].execLog = <<"A", "B", "C">>
  /\ heap[1].jobOrder = <<"A", "B", "C">>
  /\ heap[1].jobs["A"].steps = OkStep
  /\ "X" \in DOMAIN workflows
  /\ workflows["X"].jobOrder = <<"C", "A">>

\* ------------------------------------------- the executor (C25, C26)
InitDocker == InitWith(0, 0, 0, 0, 0)
SpecDocker == InitDocker /\ [][NextDocker]_vars

\* C25: sandbox teardown on every path.  When an Execute call that has
\* created a container has returned (with success, after a non-zero exit,
\* after a start failure, or after an error or a cancellation of the wait),
\* its container does not exist any more.
C25_TornDownOnEveryPath ==
  dk.pc = "returned" /\ dk.id # 0 => dk.id \notin dk.live
\* What holds instead: the container is removed on the returns that follow
\* the end of the script (status 0 or not).
C25_TornDownAfterExit ==
  dk.pc = "returned" /\ dk.id # 0
     /\ dk.err \notin {"failed to start container", "error waiting for container"}
    => dk.id \notin dk.live

\* C26: when the script of the job exits with a non-zero status, Execute
\* returns an error together with the output the container has written so
\* far, which is not empty.
C26_OutputOnNonZeroExit ==
  dk.pc = "returned" /\ dk.exit # 0 =>
    /\ dk.err # ""
    /\ dk.out = ScriptOutput(dk.steps, 1, dk.exit)
    /\ dk.out # <<>>
\* What holds instead: the error comes with the text getContainerLogs has
\* produced, the output so far or the notice that the logs were not got.
C26_LogsOrNotice ==
  dk.pc = "returned" /\ dk.exit # 0 =>
    /\ dk.err = "container exited with status"
    /\ dk.out \in {ScriptOutput(dk.steps, 1, dk.exit), <<<<"Failed to get logs">>>>}
    /\ dk.out # <<>>

\* ------------------------------------------- one run on its own
\* One triggered run of the three-job workflow with one fault of the store
\* or the backend, and the same with the caller's context cancelled at any moment after the trigger has returned.
InitOne == InitWith(1, 1, 0, 1, 0)
NextOne ==
  \/ ParseAndSaveWorkflow(DocABC)
  \/ \E t \in Calls : TriggerWorkflow(t, "X")
  \/ \E t \in Calls : TaskStep(t)
  \/ Tick
SpecOne == InitOne /\ [][NextOne]_vars
FairOne == SpecOne /\ \A t \in Calls : WF_vars(TaskStep(t))
NextCtx ==
  \/ ParseAndSaveWorkflow(DocABC)
  \/ \E t \in Calls : TriggerWorkflow(t, "X")
  \/ \E t \in Calls : TaskStep(t)
  \/ \E t \in Calls : CancelCallerCtx(t)
  \/ Tick
SpecCtx == InitOne /\ [][NextCtx]_vars
FairCtx == SpecCtx /\ \A t \in Calls : WF_vars(TaskStep(t))

\* ------------------------------------------- backend errors (C27)
\* The job whose Execute call has returned an error, once recorded.
Recorded == {"persistResult", "setStatus", "persistStatus", "complete", "persistFinal",
             "done"}
C27_State ==
  \A t \in Calls :
    task[t].failedAt # 0 /\ task[t].pc \in Recorded =>
      LET job == heap[t].jobs[task[t].jobOrder[task[t].failedAt]]
      IN /\ job.status = "failed"
         /\ job.output = task[t].out
         /\ job.endedAt # NoTime
         /\ task[t].pc \in {"persistStatus", "complete", "persistFinal", "done"} =>
              heap[t].status = "failed"
C27_Reaches ==
  \A t \in Calls :
    task[t].failedAt # 0 ~> (task[t].pc = "done" /\ Terminal(heap[t])
                              /\ heap[t].status = "failed")
\* C27: an error of the execution backend for a job is recorded, not
\* propagated.  The job gets the status failed, the output Execute has
\* returned and an ended_at, the run's status becomes failed, and the task
\* still reaches its final persist and completion.
C27_ErrorRecorded == []C27_State /\ C27_Reaches
C27_Witness ==
  /\ task[1].pc = "done"
  /\ task[1].failedAt = 2
  /\ task[1].out = "partial"
  /\ faults = 1
  /\ heap[1].jobs["B"].output = "partial"
  /\ heap[1].jobs["B"].status = "failed"
  /\ heap[1].status = "failed"

\* ------------------------------------------- the caller's context (C28)
\* Execute returns without an error / with the output so far and an error.
ReturnsOk(t) == RunJobs_ExecuteReturn(t) /\ ~task'[t].err
ReturnsPartial(t) == RunJobs_ExecuteReturn(t) /\ task'[t].err /\ task'[t].out = "partial"
\* The cancellation itself touches neither the task nor the run.
C28_Step ==
  \A t \in Calls :
    ctxDone'[t] # ctxDone[t] =>
      task' = task /\ heap' = heap /\ workflowRuns' = workflowRuns
\* With the caller's context cancelled, Execute can still return what it
\* returns otherwise, and the run's outcome is that of its Execute calls:
\* the jobs in order up to the first failure, success if there is none.
C28_State ==
  \A t \in Calls :
    ctxDone[t] =>
      /\ task[t].pc = "inExecute" => ENABLED ReturnsOk(t) /\ ENABLED ReturnsPartial(t)
      /\ task[t].pc = "done" =>
           /\ heap[t].status = IF task[t].failedAt = 0 THEN "success" ELSE "failed"
           /\ task[t].execLog =
                SubSeq(task[t].jobOrder, 1,
                       IF task[t].failedAt = 0 THEN Len(task[t].jobOrder)
                       ELSE task[t].failedAt)
C28_Reaches ==
  \A t \in Calls : ctxDone[t] ~> (task[t].pc = "done" /\ Terminal(heap[t]))
\* C28: cancellation or expiry of the context the caller has passed to
\* TriggerWorkflow, at any point after the trigger has returned, has no
\* effect on the run: the task executes the same jobs and reaches the same
\* terminal status as with a context that is never cancelled.
C28_CallerCtxIgnored == [][C28_Step]_vars /\ []C28_State /\ C28_Reaches
C28_Witness ==
  /\ ctxDone[1]
  /\ task[1].pc = "done"
  /\ task[1].execLog = <<"A", "B", "C">>
  /\ heap[1].status = "success"
  /\ heap[1].jobs["A"].startedAt = 1
  /\ heap[1].startedAt = 0

\* ------------------------------------------- independent runs (C29)
\* Two triggered runs of the one-job workflow "Y" and an observer, in the
\* schedule the claim is about: the task of the first run stays inside
\* Execute while the second run is triggered and runs to its end, and while
\* the observer makes its calls.
InitPar == InitWith(2, 1, 0, 0, MaxReads)
Blocked == task[1].pc = "inExecute"
NextPar ==
  \/ ParseAndSaveWorkflow(DocY)
  \/ TriggerWorkflow(1, "Y")
  \/ Blocked /\ TriggerWorkflow(2, "Y")
  \/ (Blocked => task[2].pc = "done") /\ TaskStep(1)
  \/ TaskStep(2)
  \/ Blocked /\ \E id \in RunIds : GetRun_Call(id)
  \/ Blocked /\ ListRuns_Call
  \/ \E c \in Calls : Clone_Begin(c)
  \/ Clone_Times
  \/ Clone_End
  \/ Tick
SpecPar == InitPar /\ [][NextPar]_vars

Running == {"runID", "saveRun", "start", "mark", "persistRunning", "callExecute",
            "inExecute", "record", "persistResult", "setStatus", "persistStatus",
            "complete", "persistFinal"}
InitMem == InitWith(0, 0, 0, 0, 0)
SpecMem == InitMem /\ [][NextMem]_vars

\* The calls one after the other in the order given: the tables at the
\* end and what each call returns.
RECURSIVE Sequential(_, _, _, _)
Sequential(order, wfs, rs, res) ==
  IF order = <<>> THEN [wfs |-> wfs, rs |-> rs, res |-> res]
  ELSE LET c == Head(order)
           a == Apply(mc.call[c].op, c, wfs, rs)
       IN Sequential(Tail(order), a.wfs, a.rs, Put(res, c, a.res))
ReturnedCalls == {c \in StoreCallers : mc.call[c].pc = "returned"}
PendingCalls == {c \in StoreCallers : mc.call[c].pc \in {"lock", "read", "write", "unlock"}}
\* An order of the calls that keeps every call after those that had
\* returned before it was made.
RealTime(order) ==
  \A i, j \in DOMAIN order : order[i] \in mc.call[order[j]].before => i < j
Linearizable ==
  \E P \in SUBSET PendingCalls :
    \E order \in Perms(ReturnedCalls \cup P) :
      /\ RealTime(order)
      /\ LET s == Sequential(order, EmptyMap, EmptyMap, EmptyMap)
         IN /\ s.wfs = workflows
            /\ s.rs = workflowRuns
            /\ \A c \in ReturnedCalls : mc.call[c].res = <<s.res[c]>>
\* ListWorkflows called after SaveWorkflow calls with distinct names have
\* returned, with no DeleteWorkflow about, returns all of them.
NoLostUpdate ==
  \A c \in ReturnedCalls :
    mc.call[c].op = "ListWorkflows"
      /\ (\A d \in StoreCallers : mc.call[d].op # "DeleteWorkflow") =>
        \A d \in mc.call[c].before :
          mc.call[d].op = "SaveWorkflow" => NameOf(d) \in mc.call[c].res[1].names
\* C30: the in-memory store is linearizable under concurrent callers.  In
\* every interleaving the tables and the results of the calls are those of
\* the same calls made one after the other in some order that respects the
\* calls already returned; SaveWorkflow calls with distinct names are all
\* in the result of ListWorkflows afterwards.
C30_Linearizable == Linearizable /\ NoLostUpdate
C30_Witness ==
  /\ mc.call[1].op = "SaveWorkflow" /\ mc.call[2].op = "SaveWorkflow"
  /\ mc.call[3].op = "ListWorkflows"
  /\ mc.call[3].pc = "returned"
  /\ mc.call[3].before = {1, 2}
  /\ mc.call[3].res[1].names = {NameOf(1), NameOf(2)}
  /\ mc.call[1].before = {} /\ mc.call[2].before = {}

\* ------------------------------------------- workflow storage (C31)
\* ListWorkflows: the workflows of the table.
ListWorkflows(wfs) == {wfs[n] : n \in DOMAIN wfs}
Stored(wf) == [name |-> wf.name, jobs |-> wf.jobs, jobOrder |-> wf.jobOrder]
C31_Step ==
  /\ uploads' < uploads /\ upErr' = <<"ok">> =>
       /\ GetWorkflow(workflows', upWf'[1].name) = [err |-> FALSE, wf |-> Stored(upWf'[1])]
       /\ \A n \in DOMAIN workflows \ {upWf'[1].name} :
            GetWorkflow(workflows', n) = GetWorkflow(workflows, n)
       /\ DOMAIN workflows' = DOMAIN workflows \cup {upWf'[1].name}
  /\ del.pc = "deleteWorkflow" /\ del'.pc = "idle" =>
       /\ del.name \in DOMAIN workflows
       /\ GetWorkflow(workflows', del.name).err
       /\ \A n \in DOMAIN workflows \ {del.name} :
            GetWorkflow(workflows', n) = GetWorkflow(workflows, n)
  /\ del.pc = "deleteWorkflow" /\ del'.pc = "idleNotFound" =>
       del.name \notin DOMAIN workflows /\ workflows' = workflows
  /\ \A t \in Calls :
       task[t].pc = "idle" /\ task'[t].pc = "notFound" =>
         task'[t].name \notin DOMAIN workflows /\ workflows' = workflows
  /\ workflows' # workflows =>
       \/ uploads' < uploads /\ upErr' = <<"ok">>
       \/ del.pc = "deleteWorkflow" /\ del'.pc = "idle"
C31_State ==
  /\ \A n \in DOMAIN workflows : workflows[n].name = n
  /\ Cardinality(ListWorkflows(workflows)) = Cardinality(DOMAIN workflows)
\* C31: workflow storage is keyed by name.  GetWorkflow(n) returns the
\* workflow saved last under n (a second SaveWorkflow of a name replaces
\* the first, ListWorkflows never holds two workflows of one name); after a
\* successful DeleteWorkflow(n), GetWorkflow(n) fails with not found;
\* DeleteWorkflow and GetWorkflow of a name not stored fail with not found
\* and leave the stored workflows as they are.
C31_KeyedByName == [][C31_Step]_vars /\ []C31_State
C31_Witness ==
  /\ uploads = 0
  /\ upErr = <<"ok">>
  /\ "X" \in DOMAIN workflows
  /\ workflows["X"].jobOrder = <<"C", "A">>
  /\ task[1].pc = "saveRun"
  /\ task[1].wf.jobOrder = <<"A", "B", "C">>
  /\ del.pc = "idleNotFound"
\* ------------------------------------- the two backends side by side (C32)
\* One triggered run, as in SpecRun, with the document store connected
\* next to the in-memory store: both get the calls the server makes.
InitBoth == InitOf(1, MaxUploads, MaxDeletes, 0, 0, NewMongoStorage)
SpecBoth == InitBoth /\ [][NextRun]_vars
FairBoth == SpecBoth /\ \A t \in Calls : WF_vars(TaskStep(t))
\* C32: the in-memory store and the document store give the same answers
\* to the same calls: GetRun finds the same ids, GetRun(id) is the run as
\* it was at the last SaveRun or UpdateRun of the id that succeeded, and
\* ListRuns holds the same runs.
C32_BackendsAgree ==
  /\ \A id \in DOMAIN workflowRuns \cup Mongo_Ids :
       /\ GetRunOk(id) <=> Mongo_GetRunOk(id)
       /\ (GetRunOk(id) /\ Mongo_GetRunOk(id)) => GetRun(id) = Mongo_GetRun(id)
  /\ ListRuns = Mongo_ListRuns
\* The finds agree: what differs is the content of the runs.
C32_SameIds == DOMAIN workflowRuns = Mongo_Ids
HasLogs == dk.pc \in {"cleanup", "returned"} /\ dk.out # <<>>
             /\ dk.out # <<<<"Failed to get logs">>>>
Written(m) == \E p \in DOMAIN dk.out : dk.out[p] = m
\* The step whose command ended the script (the last one, if none failed).
LastRun == IF dk.exit = 0 THEN Len(dk.steps) ELSE dk.exit
\* C34: the output of an execution lists the steps in declaration order,
\* each as start marker, command output, completion marker; the completion
\* marker of step k is written only if the commands of steps 1..k have
\* succeeded, and no marker of a step after the first failing one is
\* written.
C34_MarkersInOrder ==
  HasLogs =>
    /\ \A k \in 1..LastRun :
         /\ dk.out[3 * (k - 1) + 1] = <<"Starting", dk.steps[k].name>>
         /\ dk.out[3 * (k - 1) + 2] = <<"output", dk.steps[k].run>>
         /\ (dk.exit = 0 \/ k < dk.exit) => dk.out[3 * k] = <<"Completed", dk.steps[k].name>>
    /\ \A k \in 1..Len(dk.steps) :
         /\ Written(<<"Completed", dk.steps[k].name>>) => (dk.exit = 0 \/ k < dk.exit)
         /\ (dk.exit # 0 /\ k > dk.exit) =>
              /\ ~Written(<<"Starting", dk.steps[k].name>>)
              /\ ~Written(<<"Completed", dk.steps[k].name>>)
\* The first of two steps has failed: its start marker is all that is
\* written of the markers.
C34_Witness ==
  /\ HasLogs /\ dk.pc = "returned" /\ Len(dk.steps) = 2 /\ dk.exit = 1
  /\ Written(<<"Starting", dk.steps[1].name>>)
  /\ ~Written(<<"Starting", dk.steps[2].name>>)
\* ------------------------------------------- the progress of a run (C35)
\* The jobs of run r are those of a prefix of its job order, all of them
\* successful but the last, which is running, successful or failed.
InProgressOrder(r) ==
  LET n == Cardinality(DOMAIN r.jobs)
  IN /\ n <= Len(r.jobOrder)
     /\ DOMAIN r.jobs = {r.jobOrder[i] : i \in 1..n}
     /\ \A i \in 1..n :
          /\ i < n => r.jobs[r.jobOrder[i]].status = "success"
          /\ r.jobs[r.jobOrder[i]].status \in {"running", "success", "failed"}
\* C35: in every state of a run (the run object, and what the stores
\* return of it) the names in the job mapping form a prefix of job_order,
\* every job of the prefix but the last has status success, the last has
\* status running, success or failed, and a failed job is the last one.
C35_RunProgress ==
  /\ \A c \in DOMAIN heap : InProgressOrder(heap[c])
  /\ \A id \in DOMAIN workflowRuns : InProgressOrder(GetRun(id))
  /\ \A id \in Mongo_Ids : InProgressOrder(Mongo_GetRun(id))
\* A run of A, B, C of which A has succeeded, B has failed and C is absent.
C35_Witness ==
  \E c \in DOMAIN heap :
    /\ heap[c].jobOrder = <<"A", "B", "C">>
    /\ DOMAIN heap[c].jobs = {"A", "B"}
    /\ heap[c].jobs["A"].status = "success"
    /\ heap[c].jobs["B"].status = "failed"
    /\ heap[c].status = "failed"
\* ------------------------------------ terminal status and end time (C36)
\* Run r has ended as far as its status tells.
ShowsTerminal(r) == r.status \in {"success", "failed"}
\* C36: no run that GetRun or ListRuns returns, of either store, has status
\* success or failed and completed_at unset.
C36_TerminalHasCompletedAt ==
  /\ \A id \in DOMAIN workflowRuns :
       ShowsTerminal(GetRun(id)) => GetRun(id).completedAt # NoTime
  /\ \A r \in ListRuns : ShowsTerminal(r) => r.completedAt # NoTime
  /\ \A id \in Mongo_Ids :
       ShowsTerminal(Mongo_GetRun(id)) => Mongo_GetRun(id).completedAt # NoTime
  /\ \A r \in Mongo_ListRuns : ShowsTerminal(r) => r.completedAt # NoTime
\* Once Complete has run and its UpdateRun has returned, the run that is
\* shown has both.
C36_CompletedAtAfterComplete ==
  \A t \in Calls :
    (task[t].pc = "done" /\ GetRunOk(heap[t].id) /\ workflowRuns[heap[t].id] = t) =>
      (ShowsTerminal(GetRun(heap[t].id)) /\ GetRun(heap[t].id).completedAt # NoTime)
\* ------------------------------------------------ lock order (C37)
\* One run, a delete of its workflow and an observer that calls GetRun and
\* ListRuns twice, scheduled as the Go runtime does: a goroutine that can
\* take its next step takes it.
InitLock == InitWith(1, 1, 1, 0, 2)
NextLock ==
  \/ ParseAndSaveWorkflow(DocBA)
  \/ TriggerWorkflow(1, "X")
  \/ TaskStep(1)
  \/ \E id \in RunIds : GetRun_Call(id)
  \/ ListRuns_Call
  \/ \E c \in Calls : Clone_Begin(c)
  \/ Clone_Times
  \/ Clone_End
  \/ DeleteWorkflow_Runs("X")
  \/ DeleteWorkflow_Workflow
SpecLock == InitLock /\ [][NextLock]_vars
FairLock ==
  /\ SpecLock
  /\ WF_vars(TaskStep(1))
  /\ WF_vars(\E c \in Calls : Clone_Begin(c))
  /\ WF_vars(Clone_Times)
  /\ WF_vars(Clone_End)
  /\ WF_vars(DeleteWorkflow_Workflow)

\* Who waits for whom.  The observer waits for task c when it is to clone
\* the run of c and c holds the lock of the run; task c waits for the
\* observer when its next step takes a lock the observer holds (the write
\* lock of the run for UpdateJob, SetStatus and Complete, the write lock of
\* the store for SaveRun and UpdateRun); the delete waits for the observer
\* or for a task that holds the lock of the store.
TakesRunLock == {"mark", "record", "setStatus", "complete"}
TakesStoreLock == {"saveRun", "persistRunning", "persistResult", "persistStatus",
                   "persistFinal"}
ObserverWaitsFor(c) == rd.pc = "next" /\ c \in rd.todo /\ RunLocked(c)
TaskWaitsForObserver(c) ==
  \/ task[c].pc \in TakesRunLock /\ RLocked(c)
  \/ task[c].pc \in TakesStoreLock /\ StoreRLocked
TaskWaitsForTask(c, d) == task[c].pc \in TakesStoreLock /\ "store" \in LocksHeld(d)
ObserverInCall == rd.pc \in {"next", "cloneTimes", "cloneJobs"}
ObserverReturned == rd.pc \in {"got", "notFound"}
\* C37: there is no cycle of lock waits between the lock of the store and
\* the locks of the runs, and every call returns: GetRun and ListRuns, the
\* background task with its accessors and its UpdateRun calls, the delete.
C37_NoLockCycle ==
  /\ \A c \in Calls : ~(ObserverWaitsFor(c) /\ TaskWaitsForObserver(c))
  /\ \A c, d \in Calls : ~(TaskWaitsForTask(c, d) /\ TaskWaitsForTask(d, c))
Saved(t) == t \in DOMAIN heap /\ task[t].pc \in (Running \cup {"done"}) \ {"runID", "saveRun"}
RemovedInFlight(t) == Saved(t) /\ ~GetRunOk(heap[t].id) /\ ~Mongo_GetRunOk(heap[t].id)
C38_Step ==
  \A t \in Calls :
    RemovedInFlight(t) =>
      /\ ~GetRunOk(heap[t].id)' /\ ~Mongo_GetRunOk(heap[t].id)'
      /\ CallsUpdateRun(t) =>
           /\ StorageUpdateRun(workflowRuns, heap[t].id, t, FALSE).err
           /\ workflowRuns' = workflowRuns /\ docs' = docs
\* C38: a run that a cascade delete has removed while it was in flight is
\* not inserted again: every UpdateRun of its task fails with not found
\* and leaves the store as it is, and GetRun of its id keeps failing.
C38_NeverReinserted == [][C38_Step]_vars
\* With one run: the same, and the task goes on to its end.
C38_TaskTerminates ==
  /\ [][C38_Step]_vars
  /\ \A t \in Calls : (RemovedInFlight(t) /\ task[t].pc # "done") ~> (task[t].pc = "done")
\* ------------------------------------- a trigger racing a delete (C39)
\* Server.DeleteWorkflow has returned without error, and every
\* TriggerWorkflow call that was made has returned.
DeleteReturnedOk == del.pc = "idle" /\ del.name # ""
TriggersReturned == \A t \in Calls : task[t].pc \notin {"runID", "saveRun"}
\* C39: once DeleteWorkflow(X) has returned successfully and the trigger
\* has returned, no store holds a run whose workflow_name is X.
C39_NoOrphanRun ==
  (DeleteReturnedOk /\ TriggersReturned /\ del.name \notin DOMAIN workflows) =>
    /\ RunsOf(workflowRuns, heap, del.name) = {}
    /\ \A r \in Mongo_ListRuns : r.workflowName # del.name
\* --------------------------------- delete of an unknown workflow (C40)
\* A trigger and two deletes of the same workflow.
InitDel == InitWith(1, 1, 2, 0, 0)
NextDel ==
  \/ ParseAndSaveWorkflow(DocY)
  \/ TriggerWorkflow(1, "Y")
  \/ TaskStep(1)
  \/ DeleteWorkflow_Runs("Y")
  \/ DeleteWorkflow_Workflow
  \/ Tick
SpecDel == InitDel /\ [][NextDel]_vars
\* C40: a Server.DeleteWorkflow call that returns not found has left the
\* store as it was: it has removed no run, the runs of the name included
\* (and no workflow: there was none of the name).
C40_Step ==
  (del.pc = "deleteWorkflow" /\ del'.pc = "idleNotFound") =>
    /\ del.removed = {}
    /\ workflows' = workflows /\ workflowRuns' = workflowRuns
C40_NotFoundLeavesStore == [][C40_Step]_vars
====
